---- MODULE Spec2Model ----
(***************************************************************************)
(* A model of the decision-tree library: the impurity criteria, the tree   *)
(* builder with its split search, cost-complexity pruning, the predictor,  *)
(* the JSON persistence and the public API of DecisionTreeClassifier and   *)
(* DecisionTreeRegressor.                                                  *)
(*                                                                         *)
(* JavaScript numbers are modelled as exact rationals <<num, den>> and NaN *)
(* as <<0, 0>>; an optional field (T | undefined) is a sequence of length  *)
(* 0 or 1; a JavaScript value of type number | string | null is a record   *)
(* [t, n, s] whose s is what String(v) yields.                             *)
(***************************************************************************)
EXTENDS Integers, Sequences, FiniteSets, TLC

\* ------------------------------------------------------------------ bounds

\* Largest number of rows of a training matrix X handed to fit.
MaxRows == 3
\* Numeric feature values are 1..MaxNum.
MaxNum == 3

\* ------------------------------------------------------- exact arithmetic

Abs(x) == IF x < 0 THEN -x ELSE x

RECURSIVE GCD(_, _)
GCD(a, b) == IF b = 0 THEN a ELSE GCD(b, a % b)

\* The rational n/d in lowest terms with a positive denominator. NaN has the
\* denominator 0, and so has every sum, product and quotient of a NaN (no
\* number of the model is divided by 0).
Rat(n, d) ==
    LET sn == IF d < 0 THEN -n ELSE n
        sd == Abs(d)
        g  == GCD(Abs(sn), sd)
    IN  IF d = 0 THEN <<0, 0>> ELSE <<sn \div g, sd \div g>>

RInt(n)    == <<n, 1>>
RZero      == <<0, 1>>
ROne       == <<1, 1>>
RAdd(a, b) == Rat(a[1] * b[2] + b[1] * a[2], a[2] * b[2])
RSub(a, b) == Rat(a[1] * b[2] - b[1] * a[2], a[2] * b[2])
RMul(a, b) == Rat(a[1] * b[1], a[2] * b[2])
RDiv(a, b) == Rat(a[1] * b[2], a[2] * b[1])
\* a < b and a <= b: false when either is NaN.
RLt(a, b)  == a[2] # 0 /\ b[2] # 0 /\ a[1] * b[2] < b[1] * a[2]
RLe(a, b)  == a[2] # 0 /\ b[2] # 0 /\ a[1] * b[2] <= b[1] * a[2]
RAbs(a)    == <<Abs(a[1]), a[2]>>

RECURSIVE Power(_, _)
Power(b, e) == IF e = 0 THEN 1 ELSE b * Power(b, e - 1)

RECURSIVE RSum(_)
RSum(s) == IF s = <<>> THEN RZero ELSE RAdd(s[1], RSum(Tail(s)))

\* --------------------------------------------------------- sequence tools

Range(s) == {s[i] : i \in DOMAIN s}

Contains(s, e) == \E i \in DOMAIN s : s[i] = e

\* const x = v; followed by the statements Body reads x in.
With(v, Body(_)) == Body(v)

\* Array.prototype.map.
Map(s, F(_)) == [i \in DOMAIN s |-> F(s[i])]

\* [...new Set(s)]: the distinct elements in first-seen order.
RECURSIVE Unique(_)
Unique(s) ==
    IF s = <<>> THEN <<>>
    ELSE LET init == Unique(SubSeq(s, 1, Len(s) - 1))
             last == s[Len(s)]
         IN  IF Contains(init, last) THEN init ELSE Append(init, last)

\* Array.prototype.sort((a, b) => a.key - b.key) on entries [key, item] with a
\* rational key: ascending and stable (equal keys keep their original order).
RECURSIVE InsertSorted(_, _)
InsertSorted(e, s) ==
    IF s = <<>> THEN <<e>>
    ELSE IF RLe(s[1].key, e.key)
         THEN <<s[1]>> \o InsertSorted(e, Tail(s))
         ELSE <<e>> \o s

RECURSIVE StableSort(_)
StableSort(s) ==
    IF s = <<>> THEN <<>>
    ELSE InsertSorted(s[Len(s)], StableSort(SubSeq(s, 1, Len(s) - 1)))

\* --------------------------------------------------- JavaScript values

\* The decimal text of the small non-negative integers the model uses.
DigitText == <<"0", "1", "2", "3", "4", "5", "6", "7", "8", "9">>

\* A number, a string and null of type FeatureValue / label.
JsNum(n) == [t |-> "num", n |-> n, s |-> DigitText[n + 1]]
JsStr(s) == [t |-> "str", n |-> 0, s |-> s]
JsNull   == [t |-> "null", n |-> 0, s |-> "null"]

\* String(v).
String(v) == v.s

IsDigitText(s) == \E i \in DOMAIN DigitText : DigitText[i] = s

\* Number.parseFloat(s) for the texts of the model: <<n>>, or <<>> for NaN.
parseFloat(s) ==
    IF IsDigitText(s)
    THEN <<(CHOOSE i \in DOMAIN DigitText : DigitText[i] = s) - 1>>
    ELSE <<>>

\* Number(v) of a feature value or target: the number itself, the number a
\* text reads as (0 for the empty text), NaN for any other text.
Number(v) ==
    IF v.t = "num" THEN RInt(v.n)
    ELSE IF parseFloat(v.s) # <<>> THEN RInt(parseFloat(v.s)[1])
    ELSE IF v.s = "" THEN RZero
    ELSE <<0, 0>>

\* The order String(a).localeCompare(String(b)) < 0 on the texts of the
\* model: the empty text first, digits before letters, each ascending.
LocaleOrder == <<"", "0", "1", "2", "3", "4", "5", "6", "7", "8", "9", "a", "A", "b", "B", "c", "C">>

LocaleRank(s) == CHOOSE i \in DOMAIN LocaleOrder : LocaleOrder[i] = s

\* [...labels].sort((a, b) => String(a).localeCompare(String(b))).
SortByLocale(labels) ==
    LET keyed(l) == [key |-> RInt(LocaleRank(String(l))), item |-> l]
        item(e)  == e.item
    IN  Map(StableSort(Map(labels, keyed)), item)

\* A plain object used as Record<string | number, number>: the sequence of
\* its [k, v] entries in property enumeration order, which is the integer-like
\* keys ascending, then the other keys in insertion order.
RECURSIVE ObjInsert(_, _, _)
ObjInsert(obj, k, v) ==
    IF obj = <<>> THEN <<[k |-> k, v |-> v]>>
    ELSE IF IsDigitText(k)
            /\ (~IsDigitText(obj[1].k) \/ parseFloat(obj[1].k)[1] > parseFloat(k)[1])
         THEN <<[k |-> k, v |-> v]>> \o obj
         ELSE <<obj[1]>> \o ObjInsert(Tail(obj), k, v)

ObjHas(obj, k) == \E i \in DOMAIN obj : obj[i].k = k

\* obj[k], <<>> when the property is absent (undefined).
ObjGet(obj, k) ==
    IF ObjHas(obj, k) THEN <<obj[CHOOSE i \in DOMAIN obj : obj[i].k = k].v>> ELSE <<>>

\* obj[k] = v.
ObjSet(obj, k, v) ==
    IF ObjHas(obj, k)
    THEN [i \in DOMAIN obj |-> IF obj[i].k = k THEN [k |-> k, v |-> v] ELSE obj[i]]
    ELSE ObjInsert(obj, k, v)

ObjKeys(obj) == [i \in DOMAIN obj |-> obj[i].k]

\* ------------------------------------------------------ impurity criteria

\* counts[label] = (counts[label] || 0) + 1 for every label of y: the keys are
\* the labels' texts.
RECURSIVE CountLabels(_)
CountLabels(y) ==
    IF y = <<>> THEN <<>>
    ELSE LET counts == CountLabels(SubSeq(y, 1, Len(y) - 1))
             key    == String(y[Len(y)])
             old    == ObjGet(counts, key)
         IN  ObjSet(counts, key, IF old = <<>> THEN 1 ELSE old[1] + 1)

calculateGiniImpurity(y) ==
    IF Len(y) = 0 THEN RZero
    ELSE LET counts == CountLabels(y)
             sq(e)  == LET p == Rat(e.v, Len(y)) IN RMul(p, p)
         IN  RSub(ROne, RSum(Map(counts, sq)))

\* calculateEntropy: the probabilities p of the labels in the order of the
\* sum, the value being minus the sum of p * log2(p) (no term for no sample).
calculateEntropy(y) ==
    IF Len(y) = 0 THEN <<>>
    ELSE LET probability(e) == Rat(e.v, Len(y))
         IN  Map(CountLabels(y), probability)

Mean(y) == RDiv(RSum(Map(y, Number)), RInt(Len(y)))

calculateMSE(y) ==
    IF Len(y) = 0 THEN RZero
    ELSE LET mean  == Mean(y)
             sq(v) == LET d == RSub(Number(v), mean) IN RMul(d, d)
         IN  RDiv(RSum(Map(y, sq)), RInt(Len(y)))

calculateMAE(y) ==
    IF Len(y) = 0 THEN RZero
    ELSE LET mean   == Mean(y)
             dev(v) == RAbs(RSub(Number(v), mean))
         IN  RDiv(RSum(Map(y, dev)), RInt(Len(y)))

\* A JavaScript Set: its items in insertion order, without duplicates.
JsSet(items) == [isSet |-> TRUE, items |-> Unique(items)]

SetHas(set, v) == Contains(set.items, v)

SetSize(set) == Len(set.items)

\* ------------------------------------------------------------------ Node

\* new Node(options): every field of the class; isLeaf is options.isLeaf ?? false.
Node(featureIndex, threshold, splitCategories, value, impurity, leftChild, rightChild, samples, isLeaf, potentialLeafValue) ==
    [featureIndex       |-> featureIndex,
     threshold          |-> threshold,
     splitCategories    |-> splitCategories,
     value              |-> value,
     impurity           |-> impurity,
     leftChild          |-> leftChild,
     rightChild         |-> rightChild,
     samples            |-> samples,
     isLeaf             |-> IF isLeaf = <<>> THEN FALSE ELSE isLeaf[1],
     potentialLeafValue |-> potentialLeafValue]

\* ------------------------------------------- the two concrete tree classes

\* calculateImpurity of DecisionTreeClassifier / DecisionTreeRegressor. The
\* criteria of the model are gini (classifier), mse and mae (regressor).
calculateImpurity(self, y) ==
    IF self.kind = "classifier"
    THEN calculateGiniImpurity(y)
    ELSE IF self.criterion = "mae" THEN calculateMAE(y) ELSE calculateMSE(y)

\* DecisionTreeClassifier.calculateLeafValue: the object label text -> frequency.
ClassifierLeafValue(y) ==
    IF Len(y) = 0 THEN <<>>
    ELSE LET counts  == CountLabels(y)
             prob(e) == [k |-> e.k, v |-> Rat(e.v, Len(y))]
         IN  Map(counts, prob)

\* DecisionTreeRegressor.calculateLeafValue: the mean, 0 for no sample.
RegressorLeafValue(y) == IF Len(y) = 0 THEN RZero ELSE Mean(y)

calculateLeafValue(self, y) ==
    IF self.kind = "classifier" THEN ClassifierLeafValue(y) ELSE RegressorLeafValue(y)

\* DecisionTreeClassifier.getFirstUniqueClass: <<>> for undefined.
getFirstUniqueClass(self) ==
    IF self.uniqueClasses_ # <<>> /\ Len(self.uniqueClasses_[1]) > 0
    THEN <<self.uniqueClasses_[1][1]>>
    ELSE <<>>

\* ----------------------------------------------------------- split search

Indices(n) == [i \in 1..n |-> i]

\* X[i][featureIdx] with the 0-based featureIdx of the source.
Cell(X, i, featureIdx) == X[i][featureIdx + 1]

Pick(s, idx) == [j \in DOMAIN idx |-> s[idx[j]]]

\* _fisherYatesShuffle from position i down (positions counted from 0);
\* picks[i] is the j drawn from 0..i at position i.
RECURSIVE fisherYatesShuffle(_, _, _)
fisherYatesShuffle(array, i, picks) ==
    IF i <= 0 THEN array
    ELSE fisherYatesShuffle([array EXCEPT ![i + 1] = array[picks[i] + 1],
                                          ![picks[i] + 1] = array[i + 1]],
                            i - 1, picks)

\* _getFeaturesToConsider, the draws of the shuffle being picks.
\* maxFeaturesForSplit_ is <<>> (null), or <<m>> with m.t one of "sqrt",
\* "log2" and "num", the number being the rational m.v.
featuresToConsider(self, nTotalFeatures, picks) ==
    LET allFeatureIndices == [i \in 1..nTotalFeatures |-> i - 1]
        m == self.maxFeaturesForSplit_[1]
        round(x) == (2 * x[1] + x[2]) \div (2 * x[2])
        roundSqrt == CHOOSE r \in 0..nTotalFeatures :
                         (2 * r - 1) * (2 * r - 1) <= 4 * nTotalFeatures
                             /\ 4 * nTotalFeatures < (2 * r + 1) * (2 * r + 1)
        roundLog2 == CHOOSE r \in 0..nTotalFeatures :
                         Power(2, 2 * r) <= 2 * nTotalFeatures * nTotalFeatures
                             /\ 2 * nTotalFeatures * nTotalFeatures < Power(2, 2 * r + 2)
        numFeaturesToSelect ==
            CASE m.t = "sqrt" -> RInt(roundSqrt)
              [] m.t = "log2" -> RInt(roundLog2)
              [] OTHER -> IF RLe(m.v, ROne) /\ RLt(RZero, m.v)
                          THEN RInt(round(RMul(m.v, RInt(nTotalFeatures))))
                          ELSE m.v
        clamped == IF RLt(RInt(nTotalFeatures), numFeaturesToSelect) THEN RInt(nTotalFeatures)
                   ELSE IF RLt(numFeaturesToSelect, ROne) THEN ROne
                   ELSE numFeaturesToSelect
    IN  IF \/ self.maxFeaturesForSplit_ = <<>>
           \/ (m.t = "num" /\ (m.v = RZero \/ m.v = RInt(nTotalFeatures)))
        THEN allFeatureIndices
        ELSE SubSeq(fisherYatesShuffle(allFeatureIndices, nTotalFeatures - 1, picks),
                    1, clamped[1] \div clamped[2])

\* _getFeaturesToConsider with maxFeaturesForSplit_ null, as in every tree
\* that is fitted here: every feature index, ascending, and no draw.
getFeaturesToConsider(self, nTotalFeatures) == featuresToConsider(self, nTotalFeatures, <<>>)

\* One candidate partition of the non-missing rows nm (row indices): <<>> when
\* the minSamplesLeaf filter (and, for categories, the empty-side filter)
\* rejects it, else its gain over the impurity of the non-missing rows.
EvalCandidate(self, y, nm, left, right, threshold, splitCategories) ==
    IF \/ Len(left) < self.minSamplesLeaf
       \/ Len(right) < self.minSamplesLeaf
       \/ (splitCategories # <<>> /\ (Len(left) = 0 \/ Len(right) = 0))
    THEN <<>>
    ELSE LET parentImpurity_nonMissing == calculateImpurity(self, Pick(y, nm))
             impurityLeft     == calculateImpurity(self, Pick(y, left))
             impurityRight    == calculateImpurity(self, Pick(y, right))
             pLeft            == Rat(Len(left), Len(nm))
             pRight           == Rat(Len(right), Len(nm))
             weightedImpurity == RAdd(RMul(pLeft, impurityLeft), RMul(pRight, impurityRight))
         IN  <<[impurityGain    |-> RSub(parentImpurity_nonMissing, weightedImpurity),
                threshold       |-> threshold,
                splitCategories |-> splitCategories,
                left            |-> left,
                right           |-> right]>>

\* A variant of KeepBest in which a candidate of equal gain replaces the best.
RECURSIVE KeepLastBest(_, _)
KeepLastBest(cands, best) ==
    IF cands = <<>> THEN best
    ELSE LET c == cands[1]
         IN  KeepLastBest(Tail(cands),
                          IF c # <<>> /\ (best = <<>> \/ RLe(best[1].impurityGain, c[1].impurityGain))
                          THEN c ELSE best)

\* if (impurityGain > bestGain) best = candidate, over the candidates in order,
\* starting from best (<<>> stands for a best gain of -Infinity).
RECURSIVE KeepBest(_, _)
KeepBest(cands, best) ==
    IF cands = <<>> THEN best
    ELSE LET c == cands[1]
         IN  KeepBest(Tail(cands),
                      IF c # <<>> /\ (best = <<>> \/ RLt(best[1].impurityGain, c[1].impurityGain))
                      THEN c ELSE best)

\* The numeric candidates of a feature: the midpoints of adjacent distinct
\* values, ascending.
NumericCandidates(self, X, y, nm, featureIdx) ==
    LET val(i)   == Number(Cell(X, i, featureIdx))
        keyed(v) == [key |-> v, item |-> v]
        item(e)  == e.item
        uniqueSortedValues == Map(StableSort(Map(Unique(Map(nm, val)), keyed)), item)
        cand(k)  ==
            LET threshold == RDiv(RAdd(uniqueSortedValues[k], uniqueSortedValues[k + 1]), RInt(2))
                left  == SelectSeq(nm, LAMBDA i : RLe(val(i), threshold))
                right == SelectSeq(nm, LAMBDA i : ~RLe(val(i), threshold))
            IN  EvalCandidate(self, y, nm, left, right, <<threshold>>, <<>>)
    IN  IF Len(uniqueSortedValues) <= 1 THEN <<>>
        ELSE [k \in 1..(Len(uniqueSortedValues) - 1) |-> cand(k)]

\* A variant of SortedCategories that leaves the categories as first seen.
FirstSeenCategories(self, X, y, nm, featureIdx, uniqueCategories) == uniqueCategories

\* The ranking of the categories of a feature with more than two categories:
\* ascending by the share of the first unique class (classifier) or by the
\* mean target (regressor).
SortedCategories(self, X, y, nm, featureIdx, uniqueCategories) ==
    LET rowsOf(cat) == SelectSeq(nm, LAMBDA i : Cell(X, i, featureIdx) = cat)
        metric(cat) ==
            IF self.kind = "classifier"
            THEN LET firstClass == getFirstUniqueClass(self)[1]
                     hits == SelectSeq(rowsOf(cat), LAMBDA i : y[i] = firstClass)
                 IN  Rat(Len(hits), Len(rowsOf(cat)))
            ELSE Mean(Pick(y, rowsOf(cat)))
        keyed(cat) == [key |-> metric(cat), item |-> cat]
        item(e)    == e.item
    IN  Map(StableSort(Map(uniqueCategories, keyed)), item)

\* The categorical candidates of a feature: the left-category sets, in order.
CategoricalCandidates(self, X, y, nm, featureIdx) ==
    LET val(i) == Cell(X, i, featureIdx)
        uniqueCategories == Unique(Map(nm, val))
        potentialCategorySplits ==
            IF Len(uniqueCategories) = 2 THEN <<JsSet(<<uniqueCategories[1]>>)>>
            ELSE IF self.kind = "classifier" /\ getFirstUniqueClass(self) = <<>> THEN <<>>
            ELSE LET sortedCategories ==
                         SortedCategories(self, X, y, nm, featureIdx, uniqueCategories)
                 IN  [k \in 1..(Len(sortedCategories) - 1) |->
                         JsSet(SubSeq(sortedCategories, 1, k))]
        cand(leftCategorySet) ==
            IF SetSize(leftCategorySet) = 0 \/ SetSize(leftCategorySet) = Len(uniqueCategories)
            THEN <<>>
            ELSE LET left  == SelectSeq(nm, LAMBDA i : SetHas(leftCategorySet, val(i)))
                     right == SelectSeq(nm, LAMBDA i : ~SetHas(leftCategorySet, val(i)))
                 IN  EvalCandidate(self, y, nm, left, right, <<>>, <<leftCategorySet>>)
    IN  IF Len(uniqueCategories) <= 1 THEN <<>>
        ELSE Map(potentialCategorySplits, cand)

\* The body of the loop over the features for one feature: <<>> when the
\* feature yields no split (continue), else the best split of the feature with
\* the rows whose value is missing sent to the larger side (left on a tie).
FeatureSplit(self, X, y, featureIdx) ==
    LET featureType ==
            IF self.featureTypes_ # <<>> /\ featureIdx + 1 <= Len(self.featureTypes_[1])
            THEN self.featureTypes_[1][featureIdx + 1] ELSE "numerical"
        nm      == SelectSeq(Indices(Len(X)), LAMBDA i : Cell(X, i, featureIdx) # JsNull)
        missing == SelectSeq(Indices(Len(X)), LAMBDA i : Cell(X, i, featureIdx) = JsNull)
        cands   == IF featureType = "numerical"
                   THEN NumericCandidates(self, X, y, nm, featureIdx)
                   ELSE CategoricalCandidates(self, X, y, nm, featureIdx)
    IN  IF Len(nm) < self.minSamplesSplit \/ Len(nm) = 0 THEN <<>>
        ELSE With(KeepBest(cands, <<>>), LAMBDA best :
             IF best = <<>> THEN <<>>
             ELSE LET l == best[1].left
                      r == best[1].right
                      toLeft == \/ Len(l) > Len(r) \/ Len(r) = 0
                                \/ ~(Len(r) > Len(l) \/ Len(l) = 0)
                  IN  <<[featureIndex    |-> featureIdx,
                         threshold       |-> best[1].threshold,
                         splitCategories |-> best[1].splitCategories,
                         impurityGain    |-> best[1].impurityGain,
                         leftIndices     |-> IF Len(missing) > 0 /\ toLeft THEN l \o missing ELSE l,
                         rightIndices    |-> IF Len(missing) > 0 /\ ~toLeft
                                             THEN r \o missing ELSE r]>>)

\* The loop over the features: a feature's split replaces the best so far only
\* when its gain is strictly greater.
RECURSIVE BestOverall(_, _, _, _, _)
BestOverall(self, X, y, features, best) ==
    IF features = <<>> THEN best
    ELSE With(FeatureSplit(self, X, y, features[1]), LAMBDA s :
         BestOverall(self, X, y, Tail(features),
                     IF s # <<>> /\ (best = <<>> \/ RLt(best[1].impurityGain, s[1].impurityGain))
                     THEN s ELSE best))

\* What _findBestSplit adds to featureImportances_ for the split it returns:
\* gain * (samples of the node / samples of this.root, or of the node itself
\* while this.root is undefined).
ImportanceShare(self, bestSplit, nSamplesInNode) ==
    LET totalSamplesInTree == IF self.root # <<>> THEN self.root[1].samples ELSE nSamplesInNode
    IN  RMul(bestSplit.impurityGain, Rat(nSamplesInNode, totalSamplesInTree))

\* _findBestSplit: [split, imp], the split (<<>> for null) and the importance
\* accumulator afterwards. self.root is the root the instance holds while the
\* tree is being built.
findBestSplit(self, X, y, imp) ==
    IF self.nFeatures = <<>> \/ self.nFeatures = <<0>> THEN [split |-> <<>>, imp |-> imp]
    ELSE With(BestOverall(self, X, y, getFeaturesToConsider(self, self.nFeatures[1]), <<>>),
              LAMBDA best :
         [split |-> best,
          imp   |-> IF best # <<>> /\ RLt(RZero, best[1].impurityGain)
                    THEN [imp EXCEPT ![best[1].featureIndex + 1] =
                              RAdd(@, ImportanceShare(self, best[1], Len(X)))]
                    ELSE imp])

\* ------------------------------------------------------------ tree builder

\* A variant of DepthReached that stops one level later.
DepthExceeded(depth, maxDepth) ==
    CASE maxDepth.k = "inf"  -> FALSE
      [] maxDepth.k = "null" -> depth > 0
      [] OTHER               -> depth > maxDepth.n

\* depth >= this.maxDepth, where maxDepth is a number, Infinity or (after a
\* load) null, which the comparison converts to 0.
DepthReached(depth, maxDepth) ==
    CASE maxDepth.k = "inf"  -> FALSE
      [] maxDepth.k = "null" -> depth >= 0
      [] OTHER               -> depth >= maxDepth.n

\* A variant of Leaf that records no potentialLeafValue.
LeafWithoutPotential(value, impurity, samples) ==
    Node(<<>>, <<>>, <<>>, <<value>>, <<impurity>>, <<>>, <<>>, samples, <<TRUE>>, <<>>)

Leaf(value, impurity, samples) ==
    Node(<<>>, <<>>, <<>>, <<value>>, <<impurity>>, <<>>, <<>>, samples, <<TRUE>>, <<value>>)

\* _buildTree: [node, imp].
RECURSIVE buildTree(_, _, _, _, _)

\* A variant of buildFrom without the second check of minSamplesLeaf.
buildFromUnguarded(self, X, y, depth, found) ==
    LET asLeaf == Leaf(calculateLeafValue(self, y), calculateImpurity(self, y), Len(X))
        bestSplit == found.split
    IN  IF bestSplit = <<>> \/ RLe(bestSplit[1].impurityGain, self.minImpurityDecrease)
        THEN [node |-> asLeaf, imp |-> found.imp]
        ELSE
        With(buildTree(self, Pick(X, bestSplit[1].leftIndices), Pick(y, bestSplit[1].leftIndices),
                       depth + 1, found.imp), LAMBDA leftChild :
        With(buildTree(self, Pick(X, bestSplit[1].rightIndices),
                       Pick(y, bestSplit[1].rightIndices), depth + 1, leftChild.imp),
             LAMBDA rightChild :
        [node |-> Node(<<bestSplit[1].featureIndex>>, bestSplit[1].threshold,
                       bestSplit[1].splitCategories, <<>>, <<calculateImpurity(self, y)>>,
                       <<leftChild.node>>, <<rightChild.node>>, Len(X), <<FALSE>>,
                       <<calculateLeafValue(self, y)>>),
         imp  |-> rightChild.imp]))

\* _buildTree from the point where _findBestSplit has returned found =
\* [split, imp]: the two rejections of the split, else the two children and
\* the internal node.
buildFrom(self, X, y, depth, found) ==
    LET nSamples        == Len(X)
        currentImpurity == calculateImpurity(self, y)
        currentPotentialLeafValue == calculateLeafValue(self, y)
        asLeaf == Leaf(currentPotentialLeafValue, currentImpurity, nSamples)
        bestSplit == found.split
    IN  IF bestSplit = <<>> \/ RLe(bestSplit[1].impurityGain, self.minImpurityDecrease)
        THEN [node |-> asLeaf, imp |-> found.imp]
        ELSE
        LET leftIndices  == bestSplit[1].leftIndices
            rightIndices == bestSplit[1].rightIndices
        IN  IF Len(leftIndices) < self.minSamplesLeaf \/ Len(rightIndices) < self.minSamplesLeaf
            THEN [node |-> asLeaf, imp |-> found.imp]
            ELSE
            With(buildTree(self, Pick(X, leftIndices), Pick(y, leftIndices),
                           depth + 1, found.imp), LAMBDA leftChild :
            With(buildTree(self, Pick(X, rightIndices), Pick(y, rightIndices),
                           depth + 1, leftChild.imp), LAMBDA rightChild :
            [node |-> Node(<<bestSplit[1].featureIndex>>, bestSplit[1].threshold,
                           bestSplit[1].splitCategories, <<>>, <<currentImpurity>>,
                           <<leftChild.node>>, <<rightChild.node>>, nSamples, <<FALSE>>,
                           <<currentPotentialLeafValue>>),
             imp  |-> rightChild.imp]))

\* The four stopping rules _buildTree tests before it searches a split.
StopsBeforeSearch(self, X, y, depth) ==
    \/ DepthReached(depth, self.maxDepth)
    \/ Len(X) < self.minSamplesSplit
    \/ calculateImpurity(self, y) = RZero
    \/ Len(X) = 0

buildTree(self, X, y, depth, imp) ==
    IF StopsBeforeSearch(self, X, y, depth)
    THEN [node |-> Leaf(calculateLeafValue(self, y), calculateImpurity(self, y), Len(X)),
          imp  |-> imp]
    ELSE With(findBestSplit(self, X, y, imp), LAMBDA found : buildFrom(self, X, y, depth, found))

\* _buildTree(X, y, depth) on an instance whose _findBestSplit has been
\* replaced by a function returning stub; the children, built at depth + 1 =
\* maxDepth, end as leaves before any split is searched.
buildTreeStubbed(self, X, y, depth, stub) ==
    IF StopsBeforeSearch(self, X, y, depth)
    THEN [node |-> Leaf(calculateLeafValue(self, y), calculateImpurity(self, y), Len(X)),
          imp  |-> <<>>]
    ELSE buildFrom(self, X, y, depth, [split |-> <<stub>>, imp |-> <<>>])

\* ------------------------------------------------------------------ pruner

NodeRisk(node) == RMul(IF node.impurity = <<>> THEN RZero ELSE node.impurity[1], RInt(node.samples))

\* A variant of pruneRecursive that collapses a node when the cost per leaf
\* removed is above ccpAlpha.
RECURSIVE pruneRecursiveAboveAlpha(_, _)
pruneRecursiveAboveAlpha(node, ccpAlpha) ==
    IF node.isLeaf
    THEN [node |-> node, totalImpuritySum |-> NodeRisk(node), numLeaves |-> 1]
    ELSE LET leftChildResult  == pruneRecursiveAboveAlpha(node.leftChild[1], ccpAlpha)
             rightChildResult == pruneRecursiveAboveAlpha(node.rightChild[1], ccpAlpha)
             R_Tt == RAdd(leftChildResult.totalImpuritySum, rightChildResult.totalImpuritySum)
             numLeaves_Tt == leftChildResult.numLeaves + rightChildResult.numLeaves
             kept == [node EXCEPT !.leftChild = <<leftChildResult.node>>,
                                  !.rightChild = <<rightChildResult.node>>]
         IN  IF RLt(ccpAlpha, RDiv(RSub(NodeRisk(node), R_Tt), RInt(numLeaves_Tt - 1)))
             THEN [node |-> [node EXCEPT !.isLeaf = TRUE,
                                         !.value = node.potentialLeafValue,
                                         !.leftChild = <<>>,
                                         !.rightChild = <<>>,
                                         !.featureIndex = <<>>,
                                         !.threshold = <<>>,
                                         !.splitCategories = <<>>],
                   totalImpuritySum |-> NodeRisk(node), numLeaves |-> 1]
             ELSE [node |-> kept, totalImpuritySum |-> R_Tt, numLeaves |-> numLeaves_Tt]

\* _pruneRecursive: [node, totalImpuritySum, numLeaves], node being the node
\* after the in-place pruning of its subtree.
RECURSIVE pruneRecursive(_, _)
pruneRecursive(node, ccpAlpha) ==
    IF node.isLeaf
    THEN [node |-> node, totalImpuritySum |-> NodeRisk(node), numLeaves |-> 1]
    ELSE LET leftChildResult  == pruneRecursive(node.leftChild[1], ccpAlpha)
             rightChildResult == pruneRecursive(node.rightChild[1], ccpAlpha)
             R_Tt == RAdd(leftChildResult.totalImpuritySum, rightChildResult.totalImpuritySum)
             numLeaves_Tt == leftChildResult.numLeaves + rightChildResult.numLeaves
             R_t  == NodeRisk(node)
             kept == [node EXCEPT !.leftChild = <<leftChildResult.node>>,
                                  !.rightChild = <<rightChildResult.node>>]
         IN  IF numLeaves_Tt <= 1
             THEN [node |-> kept, totalImpuritySum |-> R_Tt, numLeaves |-> numLeaves_Tt]
             ELSE IF RLe(RDiv(RSub(R_t, R_Tt), RInt(numLeaves_Tt - 1)), ccpAlpha)
             THEN [node |-> [node EXCEPT !.isLeaf = TRUE,
                                         !.value = node.potentialLeafValue,
                                         !.leftChild = <<>>,
                                         !.rightChild = <<>>,
                                         !.featureIndex = <<>>,
                                         !.threshold = <<>>,
                                         !.splitCategories = <<>>],
                   totalImpuritySum |-> R_t, numLeaves |-> 1]
             ELSE [node |-> kept, totalImpuritySum |-> R_Tt, numLeaves |-> numLeaves_Tt]

\* --------------------------------------------------------------- predictor

Returned(v, path) == [ok |-> TRUE, val |-> <<v>>, path |-> path]
Thrown(path)      == [ok |-> FALSE, val |-> <<>>, path |-> path]

\* return node.potentialLeafValue when it is defined, else throw.
FallBack(n, path) ==
    IF n.potentialLeafValue # <<>> THEN Returned(n.potentialLeafValue[1], path) ELSE Thrown(path)

\* Number(featureValue) <= node.threshold.
AtMostThreshold(featureValue, threshold) == RLe(Number(featureValue), threshold)

\* A variant of MissingSide that sends every missing value left.
MissingSideLeft(leftChild, rightChild) == "L"

\* A variant of MissingSide that sends a missing value right on equal counts.
MissingSideTieRight(leftChild, rightChild) ==
    IF leftChild.samples > rightChild.samples THEN "L" ELSE "R"

\* The child a missing value goes to: "L" or "R".
MissingSide(leftChild, rightChild) ==
    IF leftChild.samples > rightChild.samples THEN "L"
    ELSE IF rightChild.samples > leftChild.samples THEN "R"
    ELSE "L"

\* _predictSample(sample, node), node being <<>> for undefined: what it returns
\* or that it throws, with the path ("L" / "R" per internal node) it took.
RECURSIVE predictSampleFrom(_, _, _)
predictSampleFrom(sample, node, path) ==
    IF node = <<>> THEN Thrown(path)
    ELSE
    LET n == node[1]
        goLeft  == predictSampleFrom(sample, n.leftChild, Append(path, "L"))
        goRight == predictSampleFrom(sample, n.rightChild, Append(path, "R"))
        bothChildren == n.leftChild # <<>> /\ n.rightChild # <<>>
    IN  IF n.isLeaf \/ n.value # <<>>
        THEN IF n.value = <<>> THEN FallBack(n, path) ELSE Returned(n.value[1], path)
        ELSE IF n.featureIndex = <<>> THEN FallBack(n, path)
        ELSE IF n.featureIndex[1] >= Len(sample) THEN Thrown(path)
        ELSE
        LET featureValue == sample[n.featureIndex[1] + 1]
        IN  IF featureValue = JsNull
            THEN IF bothChildren
                 THEN IF MissingSide(n.leftChild[1], n.rightChild[1]) = "L"
                      THEN goLeft ELSE goRight
                 ELSE FallBack(n, path)
            ELSE IF n.splitCategories # <<>>
            THEN IF ~bothChildren \/ ~n.splitCategories[1].isSet THEN Thrown(path)
                 ELSE IF SetHas(n.splitCategories[1], featureValue) THEN goLeft ELSE goRight
            ELSE IF n.threshold # <<>>
            THEN IF ~bothChildren THEN Thrown(path)
                 ELSE IF AtMostThreshold(featureValue, n.threshold[1]) THEN goLeft ELSE goRight
            ELSE FallBack(n, path)

predictSample(sample, node) == predictSampleFrom(sample, node, <<>>)

\* -------------------------------------------------------- the public API

\* A number of the program that may be Infinity, or null after a load.
Finite(n)  == [k |-> "num", n |-> n]
Infinity   == [k |-> "inf", n |-> 0]
NullNumber == [k |-> "null", n |-> 0]

getDefaultCriterion(kind) == IF kind = "classifier" THEN "gini" ELSE "mse"

\* The constructors of DecisionTreeClassifier and DecisionTreeRegressor; the
\* fields of params are optional (<<>> when not given).
NewTree(kind, params) ==
    LET given == IF params.criterion # <<>> THEN params.criterion[1]
                 ELSE getDefaultCriterion(kind)
    IN  [kind                 |-> kind,
         criterion            |-> IF kind = "classifier" /\ given \in {"mse", "mae"} THEN "gini"
                                  ELSE IF kind = "regressor" /\ given \in {"gini", "entropy"}
                                       THEN "mse"
                                  ELSE given,
         maxDepth             |-> IF params.maxDepth = <<>> THEN Infinity ELSE params.maxDepth[1],
         minSamplesSplit      |-> IF params.minSamplesSplit = <<>> THEN 2
                                  ELSE params.minSamplesSplit[1],
         minSamplesLeaf       |-> IF params.minSamplesLeaf = <<>> THEN 1
                                  ELSE params.minSamplesLeaf[1],
         minImpurityDecrease  |-> IF params.minImpurityDecrease = <<>> THEN RZero
                                  ELSE params.minImpurityDecrease[1],
         featureTypes_        |-> params.featureTypes,
         ccpAlpha             |-> IF params.ccpAlpha = <<>> THEN RZero ELSE params.ccpAlpha[1],
         maxFeaturesForSplit_ |-> <<>>,
         root                 |-> <<>>,
         nFeatures            |-> <<>>,
         featureImportances_  |-> <<>>,
         uniqueClasses_       |-> <<>>]

NoParams ==
    [criterion |-> <<>>, maxDepth |-> <<>>, minSamplesSplit |-> <<>>, minSamplesLeaf |-> <<>>,
     minImpurityDecrease |-> <<>>, featureTypes |-> <<>>, ccpAlpha |-> <<>>]

\* The outcome of a call that may throw: the instance afterwards, whether the
\* call threw, and what it returned.
Outcome(self, raised, out) == [self |-> self, raised |-> raised, out |-> out]

\* Array(n).fill(v)
Filled(n, v) == [i \in 1..n |-> v]

\* A variant of growTree that never prunes.
growTreeUnpruned(s1, X, y) ==
    LET n  == s1.nFeatures[1]
        s3 == [s1 EXCEPT !.featureTypes_ = IF @ = <<>> /\ n > 0
                                           THEN <<Filled(n, "numerical")>> ELSE @,
                         !.featureImportances_ = <<Filled(n, RZero)>>]
    IN  With(buildTree(s3, X, y, 0, s3.featureImportances_[1]), LAMBDA built :
        Outcome([s3 EXCEPT !.root = <<built.node>>, !.featureImportances_ = <<built.imp>>],
                FALSE, <<>>))

\* BaseDecisionTree.fit after its checks: the fill-in of featureTypes_, the
\* reset of the importances, the build and the pruning. s1 is the instance
\* with nFeatures assigned.
growTree(s1, X, y) ==
    LET n  == s1.nFeatures[1]
        s2 == IF s1.featureTypes_ = <<>> /\ n > 0
              THEN [s1 EXCEPT !.featureTypes_ = <<Filled(n, "numerical")>>]
              ELSE s1
        s3 == [s2 EXCEPT !.featureImportances_ = <<Filled(n, RZero)>>]
    IN  With(buildTree(s3, X, y, 0, s3.featureImportances_[1]), LAMBDA built :
        With([s3 EXCEPT !.root = <<built.node>>, !.featureImportances_ = <<built.imp>>],
             LAMBDA s4 :
        IF RLt(RZero, s4.ccpAlpha) /\ ~s4.root[1].isLeaf
        THEN Outcome([s4 EXCEPT !.root = <<pruneRecursive(s4.root[1], s4.ccpAlpha).node>>],
                     FALSE, <<>>)
        ELSE Outcome(s4, FALSE, <<>>)))

\* fit of either class up to its call of _buildTree: the checks, the sorted
\* unique labels of the classifier, nFeatures, the fill-in of featureTypes_
\* and the reset of the importances. this.root is not assigned yet.
fitUntilBuild(self, X, y) ==
    LET s0 == IF self.kind = "classifier"
              THEN [self EXCEPT !.uniqueClasses_ = <<SortByLocale(Unique(y))>>]
              ELSE self
        n  == Len(X[1])
        s1 == [s0 EXCEPT !.nFeatures = <<n>>]
    IN  IF Len(X) # Len(y) \/ Len(X) = 0 THEN Outcome(s0, TRUE, <<>>)
        ELSE IF s1.featureTypes_ # <<>> /\ Len(s1.featureTypes_[1]) # n THEN Outcome(s1, TRUE, <<>>)
        ELSE Outcome([s1 EXCEPT !.featureTypes_ = IF @ = <<>> /\ n > 0
                                                  THEN <<Filled(n, "numerical")>> ELSE @,
                                !.featureImportances_ = <<Filled(n, RZero)>>],
                     FALSE, <<>>)

\* One call of _buildTree(X, y, depth) without the calls it makes: whether it
\* searched a split, the split _findBestSplit returned to it, what the search
\* added to featureImportances_, and the arguments of the two calls it makes
\* for its children (none when it returns a leaf).
buildTreeCall(self, X, y, depth) ==
    IF StopsBeforeSearch(self, X, y, depth)
    THEN [searched |-> FALSE, split |-> <<>>, added |-> Filled(self.nFeatures[1], RZero),
          calls |-> <<>>]
    ELSE With(findBestSplit(self, X, y, Filled(self.nFeatures[1], RZero)), LAMBDA found :
         LET bestSplit == found.split
             child(indices) == [X |-> Pick(X, indices), y |-> Pick(y, indices), depth |-> depth + 1]
         IN  [searched |-> TRUE,
              split    |-> bestSplit,
              added    |-> found.imp,
              calls    |-> IF \/ bestSplit = <<>>
                              \/ RLe(bestSplit[1].impurityGain, self.minImpurityDecrease)
                              \/ Len(bestSplit[1].leftIndices) < self.minSamplesLeaf
                              \/ Len(bestSplit[1].rightIndices) < self.minSamplesLeaf
                           THEN <<>>
                           ELSE <<child(bestSplit[1].leftIndices),
                                  child(bestSplit[1].rightIndices)>>])

\* A variant of baseFit without the check of the length of featureTypes_.
baseFitSkippingTypeCheck(self, X, y) ==
    IF Len(X) # Len(y) THEN Outcome(self, TRUE, <<>>)
    ELSE IF Len(X) = 0 THEN Outcome(self, TRUE, <<>>)
    ELSE growTree([self EXCEPT !.nFeatures = <<Len(X[1])>>], X, y)

\* BaseDecisionTree.fit: the statements in order, each throw leaving the
\* assignments made before it.
baseFit(self, X, y) ==
    IF Len(X) # Len(y) THEN Outcome(self, TRUE, <<>>)
    ELSE IF Len(X) = 0 THEN Outcome(self, TRUE, <<>>)
    ELSE With([self EXCEPT !.nFeatures = <<Len(X[1])>>], LAMBDA s1 :
         IF s1.featureTypes_ # <<>> /\ Len(s1.featureTypes_[1]) # s1.nFeatures[1]
         THEN Outcome(s1, TRUE, <<>>)
         ELSE growTree(s1, X, y))

\* DecisionTreeClassifier.fit records the sorted unique labels, then runs the
\* base fit; DecisionTreeRegressor inherits the base fit.
fit(self, X, y) ==
    IF self.kind = "classifier"
    THEN baseFit([self EXCEPT !.uniqueClasses_ = <<SortByLocale(Unique(y))>>], X, y)
    ELSE baseFit(self, X, y)

\* The label predict takes from a property name of the probability object:
\* a number when the first unique class is a number and the name parses.
ClassOfKey(self, clsStr) ==
    IF /\ self.uniqueClasses_ # <<>>
       /\ Len(self.uniqueClasses_[1]) > 0
       /\ self.uniqueClasses_[1][1].t = "num"
       /\ parseFloat(clsStr) # <<>>
    THEN JsNum(parseFloat(clsStr)[1])
    ELSE JsStr(clsStr)

\* The loop of predict over the probability object: the first entry, in
\* enumeration order, whose probability is strictly greater than all before.
RECURSIVE ArgMax(_, _, _, _)
ArgMax(self, probMap, maxProb, predictedClass) ==
    IF probMap = <<>> THEN predictedClass
    ELSE IF RLt(maxProb, probMap[1].v)
         THEN ArgMax(self, Tail(probMap), probMap[1].v, <<ClassOfKey(self, probMap[1].k)>>)
         ELSE ArgMax(self, Tail(probMap), maxProb, predictedClass)

\* The class predict returns for one probability object: <<label>>, or <<>>
\* for undefined.
PredictedClass(self, probMap) ==
    LET known == self.uniqueClasses_ # <<>> /\ Len(self.uniqueClasses_[1]) > 0
        start == IF known THEN <<self.uniqueClasses_[1][1]>>
                 ELSE IF Len(probMap) > 0 THEN <<JsStr(probMap[1].k)>> ELSE <<>>
    IN  IF Len(probMap) = 0 /\ known THEN start
        ELSE ArgMax(self, probMap, RInt(-1), start)

\* predict of both classes.
predict(self, X) ==
    LET reached == [i \in DOMAIN X |-> predictSample(X[i], self.root)]
    IN  IF self.root = <<>> THEN Outcome(self, TRUE, <<>>)
        ELSE IF \E i \in DOMAIN X : ~reached[i].ok THEN Outcome(self, TRUE, <<>>)
        ELSE IF self.kind = "classifier"
        THEN Outcome(self, FALSE, [i \in DOMAIN X |-> PredictedClass(self, reached[i].val[1])])
        ELSE Outcome(self, FALSE, [i \in DOMAIN X |-> reached[i].val[1]])

\* probMap[String(cls)] || 0
ProbOf(probMap, cls) ==
    LET p == ObjGet(probMap, String(cls)) IN IF p = <<>> THEN RZero ELSE p[1]

\* DecisionTreeClassifier.predictProba.
predictProba(self, X) ==
    LET reached == [i \in DOMAIN X |-> predictSample(X[i], self.root)]
    IN  IF self.root = <<>> THEN Outcome(self, TRUE, <<>>)
        ELSE IF self.uniqueClasses_ = <<>> THEN Outcome(self, TRUE, <<>>)
        ELSE IF \E i \in DOMAIN X : ~reached[i].ok THEN Outcome(self, TRUE, <<>>)
        ELSE Outcome(self, FALSE,
                     [i \in DOMAIN X |->
                         [j \in DOMAIN self.uniqueClasses_[1] |->
                             ProbOf(reached[i].val[1], self.uniqueClasses_[1][j])]])

\* A variant of getFeatureImportances without the not-fitted error.
getFeatureImportancesUnguarded(self) ==
    Outcome(self, FALSE,
            IF self.featureImportances_ = <<>>
            THEN Filled(IF self.nFeatures = <<>> THEN 0 ELSE self.nFeatures[1], RZero)
            ELSE self.featureImportances_[1])

\* A variant of getFeatureImportances that returns the sums as accumulated.
getFeatureImportancesRaw(self) ==
    IF self.featureImportances_ = <<>> THEN Outcome(self, TRUE, <<>>)
    ELSE Outcome(self, FALSE, self.featureImportances_[1])

\* BaseDecisionTree.getFeatureImportances.
getFeatureImportances(self) ==
    IF self.featureImportances_ = <<>> THEN Outcome(self, TRUE, <<>>)
    ELSE LET totalImportance == RSum(self.featureImportances_[1])
             share(imp) == RDiv(imp, totalImportance)
         IN  IF totalImportance = RZero
             THEN Outcome(self, FALSE,
                          Filled(IF self.nFeatures = <<>> THEN 0 ELSE self.nFeatures[1], RZero))
             ELSE Outcome(self, FALSE, Map(self.featureImportances_[1], share))

\* ------------------------------------------------------------ persistence

\* What JSON.parse(JSON.stringify(x)) yields for a number: null for Infinity.
JsonNumber(x) == IF x.k = "inf" THEN NullNumber ELSE x

\* serializeNode followed by JSON.stringify and JSON.parse: a Set becomes the
\* array of its items, the children are serialized in turn, and the properties
\* that are undefined are dropped (they stay <<>>).
RECURSIVE serializeNode(_)
serializeNode(node) ==
    [node EXCEPT
        !.splitCategories = IF node.splitCategories # <<>> /\ node.splitCategories[1].isSet
                            THEN <<[isArray |-> TRUE, items |-> node.splitCategories[1].items]>>
                            ELSE IF node.splitCategories # <<>>
                            THEN <<[isArray |-> FALSE, items |-> <<>>]>>
                            ELSE <<>>,
        !.leftChild  = IF node.leftChild # <<>> THEN <<serializeNode(node.leftChild[1])>> ELSE <<>>,
        !.rightChild = IF node.rightChild # <<>> THEN <<serializeNode(node.rightChild[1])>> ELSE <<>>]

\* A variant of deserializeNode that leaves the array of categories an array.
RECURSIVE deserializeNodeKeepingArrays(_)
deserializeNodeKeepingArrays(nodeData) ==
    Node(nodeData.featureIndex,
         nodeData.threshold,
         IF nodeData.splitCategories # <<>>
         THEN <<[isSet |-> FALSE, items |-> nodeData.splitCategories[1].items]>>
         ELSE <<>>,
         nodeData.value,
         nodeData.impurity,
         IF nodeData.leftChild # <<>>
         THEN <<deserializeNodeKeepingArrays(nodeData.leftChild[1])>> ELSE <<>>,
         IF nodeData.rightChild # <<>>
         THEN <<deserializeNodeKeepingArrays(nodeData.rightChild[1])>> ELSE <<>>,
         nodeData.samples,
         <<nodeData.isLeaf>>,
         nodeData.potentialLeafValue)

\* deserializeNode: new Node of the parsed properties, the children
\* deserialized in turn and an array of categories turned back into a Set.
RECURSIVE deserializeNode(_)
deserializeNode(nodeData) ==
    Node(nodeData.featureIndex,
         nodeData.threshold,
         IF nodeData.splitCategories # <<>> /\ nodeData.splitCategories[1].isArray
         THEN <<JsSet(nodeData.splitCategories[1].items)>>
         ELSE IF nodeData.splitCategories # <<>>
         THEN <<[isSet |-> FALSE, items |-> <<>>]>>
         ELSE <<>>,
         nodeData.value,
         nodeData.impurity,
         IF nodeData.leftChild # <<>> THEN <<deserializeNode(nodeData.leftChild[1])>> ELSE <<>>,
         IF nodeData.rightChild # <<>> THEN <<deserializeNode(nodeData.rightChild[1])>> ELSE <<>>,
         nodeData.samples,
         <<nodeData.isLeaf>>,
         nodeData.potentialLeafValue)

\* toJSON of DecisionTreeClassifier / DecisionTreeRegressor: the parsed form of
\* the string it returns. uniqueClasses is written by the classifier only.
toJSON(self) ==
    IF self.root = <<>> THEN Outcome(self, TRUE, <<>>)
    ELSE Outcome(self, FALSE,
                 [type                |-> self.kind,
                  root                |-> <<serializeNode(self.root[1])>>,
                  criterion           |-> self.criterion,
                  maxDepth            |-> JsonNumber(self.maxDepth),
                  minSamplesSplit     |-> self.minSamplesSplit,
                  minSamplesLeaf      |-> self.minSamplesLeaf,
                  minImpurityDecrease |-> self.minImpurityDecrease,
                  nFeatures           |-> self.nFeatures,
                  featureTypes        |-> self.featureTypes_,
                  uniqueClasses       |-> IF self.kind = "classifier" THEN self.uniqueClasses_
                                          ELSE <<>>,
                  ccpAlpha            |-> self.ccpAlpha])

\* The static fromJSON of class kind: it throws on another type tag, else
\* returns a new instance.
staticFromJSON(kind, obj) ==
    IF obj.type # kind THEN Outcome(<<>>, TRUE, <<>>)
    ELSE LET fresh == NewTree(kind, [criterion           |-> <<obj.criterion>>,
                                     maxDepth            |-> <<obj.maxDepth>>,
                                     minSamplesSplit     |-> <<obj.minSamplesSplit>>,
                                     minSamplesLeaf      |-> <<obj.minSamplesLeaf>>,
                                     minImpurityDecrease |-> <<obj.minImpurityDecrease>>,
                                     featureTypes        |-> obj.featureTypes,
                                     ccpAlpha            |-> <<obj.ccpAlpha>>])
             loaded == [fresh EXCEPT
                           !.root = IF obj.root # <<>> THEN <<deserializeNode(obj.root[1])>>
                                    ELSE <<>>,
                           !.nFeatures = obj.nFeatures,
                           !.uniqueClasses_ = IF kind = "classifier" THEN obj.uniqueClasses
                                              ELSE <<>>]
         IN  Outcome(<<loaded>>, FALSE, <<>>)

\* BaseDecisionTree.fromJSON, the instance method both classes inherit: it
\* overwrites the fields of the instance from the parsed object.
instanceFromJSON(self, obj) ==
    Outcome(<<[self EXCEPT !.root = <<deserializeNode(obj.root[1])>>,
                            !.criterion = obj.criterion,
                            !.maxDepth = obj.maxDepth,
                            !.minSamplesSplit = obj.minSamplesSplit,
                            !.minSamplesLeaf = obj.minSamplesLeaf,
                            !.minImpurityDecrease = obj.minImpurityDecrease,
                            !.nFeatures = obj.nFeatures,
                            !.ccpAlpha = obj.ccpAlpha,
                            !.featureTypes_ = obj.featureTypes,
                            !.featureImportances_ = <<>>,
                            !.maxFeaturesForSplit_ = <<>>]>>,
            FALSE, <<>>)

\* ------------------------------------------------------------ random forest

\* The constructor of RandomForestClassifier; treeParams are the parameters
\* handed to every tree.
NewForest(nEstimators, bootstrap, treeParams) ==
    [kind        |-> "forest",
     nEstimators |-> IF nEstimators = <<>> THEN 100 ELSE nEstimators[1],
     bootstrap   |-> IF bootstrap = <<>> THEN TRUE ELSE bootstrap[1],
     trees       |-> <<>>,
     treeParams  |-> treeParams]

\* bootstrapSample: the rows at the drawn indices, one draw per row.
bootstrapSample(X, y, draw) == [X_sample |-> Pick(X, draw), y_sample |-> Pick(y, draw)]

\* BaseRandomForest.fit: one new tree per estimator, fitted on its bootstrap
\* sample (draws[i]) or on X, y; a tree's fit that throws ends the call with
\* the trees pushed before it.
forestFit(self, X, y, draws) ==
    LET sampleOf(i) == IF self.bootstrap THEN bootstrapSample(X, y, draws[i])
                       ELSE [X_sample |-> X, y_sample |-> y]
    IN  With([i \in 1..self.nEstimators |->
                 fit(NewTree("classifier", self.treeParams), sampleOf(i).X_sample,
                     sampleOf(i).y_sample)],
             LAMBDA fitted :
        LET thrown == {i \in DOMAIN fitted : fitted[i].raised}
            pushed == IF thrown = {} THEN Len(fitted)
                      ELSE (CHOOSE i \in thrown : \A j \in thrown : i <= j) - 1
        IN  Outcome([self EXCEPT !.trees = [i \in 1..pushed |-> fitted[i].self]],
                    thrown # {}, <<>>))

\* Number(label) of a property name: <<n>>, or <<>> for NaN; the empty text
\* converts to 0.
ToNumber(label) == IF label = "" THEN <<0>> ELSE parseFloat(label)

\* The loop of RandomForestClassifier.predict over Object.entries(votes).
RECURSIVE MajorityVote(_, _, _)
MajorityVote(entries, maxCount, majorityVote) ==
    IF entries = <<>> THEN majorityVote
    ELSE IF entries[1].v > maxCount
         THEN MajorityVote(Tail(entries), entries[1].v,
                           IF ToNumber(entries[1].k) # <<>>
                           THEN JsNum(ToNumber(entries[1].k)[1])
                           ELSE JsStr(entries[1].k))
         ELSE MajorityVote(Tail(entries), maxCount, majorityVote)

\* RandomForestClassifier.predict.
forestPredict(self, X) ==
    IF Len(self.trees) = 0 THEN Outcome(self, TRUE, <<>>)
    ELSE With([t \in DOMAIN self.trees |-> predict(self.trees[t], X)], LAMBDA predictionsMatrix :
         IF \E t \in DOMAIN predictionsMatrix : predictionsMatrix[t].raised
         THEN Outcome(self, TRUE, <<>>)
         ELSE LET samplePredictions(i) ==
                      [t \in DOMAIN predictionsMatrix |->
                          IF predictionsMatrix[t].out[i] = <<>> THEN JsStr("undefined")
                          ELSE predictionsMatrix[t].out[i][1]]
              IN  Outcome(self, FALSE,
                          [i \in DOMAIN X |->
                              MajorityVote(CountLabels(samplePredictions(i)), 0, JsStr(""))]))

\* probasSum[i][label] = (probasSum[i][label] || 0) + prob over the entries
\* of one tree's row, whose property names are the column indices.
RECURSIVE AddRow(_, _, _)
AddRow(sums, row, j) ==
    IF j > Len(row) THEN sums
    ELSE LET label == DigitText[j]
             old   == ObjGet(sums, label)
         IN  AddRow(ObjSet(sums, label, RAdd(IF old = <<>> THEN RZero ELSE old[1], row[j])),
                    row, j + 1)

\* The loop of RandomForestClassifier.predictProba over the trees.
RECURSIVE AddTrees(_, _, _)
AddTrees(probasSum, treeProbas, t) ==
    IF t > Len(treeProbas) THEN probasSum
    ELSE AddTrees([i \in DOMAIN probasSum |-> AddRow(probasSum[i], treeProbas[t].out[i], 1)],
                  treeProbas, t + 1)

\* RandomForestClassifier.predictProba: one object per sample.
forestPredictProba(self, X) ==
    IF Len(self.trees) = 0 THEN Outcome(self, TRUE, <<>>)
    ELSE With([t \in DOMAIN self.trees |-> predictProba(self.trees[t], X)], LAMBDA treeProbas :
         IF \E t \in DOMAIN treeProbas : treeProbas[t].raised THEN Outcome(self, TRUE, <<>>)
         ELSE LET averaged(e) == [k |-> e.k, v |-> RDiv(e.v, RInt(self.nEstimators))]
                  average(sampleProbas) == Map(sampleProbas, averaged)
              IN  Outcome(self, FALSE,
                          Map(AddTrees([i \in DOMAIN X |-> <<>>], treeProbas, 1), average)))

\* ------------------------------------------------------- the state machine

VARIABLES
    given,        \* the parameters the instance was constructed with
    model,        \* the tree instance under test: its fields
    result,       \* the last call on it: [op, arg, raised, out]
    trained,      \* <<[X, y]>> of the last fit call that returned, else <<>>
    fitRaised     \* whether some fit call on the instance has thrown

vars == <<given, model, result, trained, fitRaised>>

\* ---- the inputs of the calls

\* A bound of MaxCells cells per training matrix keeps the wide matrices short.
MaxCells == 4
\* Regression targets are 1..MaxTarget.
MaxTarget == 2
\* The matrices of the refit pool have at most MaxRefitRows rows.
MaxRefitRows == 2

ColumnCounts == {1, 2}

Kinds == {"classifier", "regressor"}

Cells == {JsNum(n) : n \in 1..MaxNum} \cup {JsNull}

\* Class labels: a number, the string that reads like it, and another string.
Labels == {JsNum(1), JsStr("1"), JsStr("2")}

TargetsOf(kind) == IF kind = "classifier" THEN Labels ELSE {JsNum(n) : n \in 1..MaxTarget}

\* The class labels of the refit pool.
RefitLabels == {JsStr("a"), JsNum(1)}

RefitTargetsOf(kind) == IF kind = "classifier" THEN RefitLabels ELSE TargetsOf(kind)

\* Every non-empty matrix over Cells within the bounds.
Matrices ==
    UNION {[1..d[1] -> [1..d[2] -> Cells]] :
               d \in {p \in (1..MaxRows) \X ColumnCounts : p[1] * p[2] <= MaxCells}}

\* The refit pool: the empty matrix and, for r rows and c columns, the matrix
\* whose row i holds the number i in every column.
RefitMatrices ==
    {<<>>} \cup {[i \in 1..r |-> [j \in 1..c |-> JsNum(i)]] : r \in 1..MaxRefitRows, c \in ColumnCounts}

RefitTargets(kind) == UNION {[1..n -> RefitTargetsOf(kind)] : n \in 0..MaxRefitRows}

\* The cells in a fixed order, and the rows of a given width numbered in base Len(CellSeq).
CellSeq == [i \in 1..(MaxNum + 1) |-> IF i <= MaxNum THEN JsNum(i) ELSE JsNull]

\* The query matrices: for each width, the matrix of all sample rows over Cells.
QueryMatrix(c) ==
    [i \in 1..Power(Len(CellSeq), c) |->
        [j \in 1..c |-> CellSeq[(((i - 1) \div Power(Len(CellSeq), j - 1)) % Len(CellSeq)) + 1]]]

QueryMatrices == {QueryMatrix(c) : c \in ColumnCounts}

\* The shape of the arguments of a fit call.
Shape(X, y) ==
    [rows |-> Len(X), targets |-> Len(y), columns |-> IF Len(X) = 0 THEN 0 ELSE Len(X[1])]

\* The hyperparameters an instance is constructed with.
FeatureTypeChoices == {<<>>, <<<<"categorical">>>>, <<<<"numerical", "categorical">>>>}

CcpAlphaChoices == {<<>>, <<Rat(3, 4)>>}

ParamChoices ==
    {[NoParams EXCEPT !.featureTypes = ft] : ft \in FeatureTypeChoices}
        \cup {[NoParams EXCEPT !.ccpAlpha = alpha] : alpha \in CcpAlphaChoices}

\* The hyperparameters of the instances whose whole life is followed.
LifeParamChoices == {p \in ParamChoices : p.ccpAlpha = <<>>}

Fresh(kind, params) ==
    /\ given = params
    /\ model = NewTree(kind, params)
    /\ result = [op |-> "new", arg |-> <<>>, raised |-> FALSE, out |-> <<>>]
    /\ trained = <<>>
    /\ fitRaised = FALSE

Call(op, arg, raised, out) == [op |-> op, arg |-> arg, raised |-> raised, out |-> out]

Init == \E kind \in Kinds, params \in LifeParamChoices : Fresh(kind, params)

InitFitted == \E kind \in Kinds, params \in ParamChoices : Fresh(kind, params)

\* ---- the calls

\* model.fit(X, y)
Fit(X, y) ==
    \E o \in {fit(model, X, y)} :
        /\ model' = o.self
        /\ result' = Call("fit", Shape(X, y), o.raised, <<>>)
        /\ trained' = IF o.raised THEN trained ELSE <<[X |-> X, y |-> y]>>
        /\ fitRaised' = (fitRaised \/ o.raised)
        /\ UNCHANGED given

\* model.predict(X)
Predict(X) ==
    \E o \in {predict(model, X)} :
        /\ result' = Call("predict", X, o.raised, o.out)
        /\ UNCHANGED <<given, model, trained, fitRaised>>

\* model.predictProba(X), a method of the classifier
PredictProba(X) ==
    \E o \in {predictProba(model, X)} :
        /\ model.kind = "classifier"
        /\ result' = Call("predictProba", X, o.raised, o.out)
        /\ UNCHANGED <<given, model, trained, fitRaised>>

\* model.getFeatureImportances()
GetFeatureImportances ==
    \E o \in {getFeatureImportances(model)} :
        /\ result' = Call("getFeatureImportances", <<>>, o.raised, o.out)
        /\ UNCHANGED <<given, model, trained, fitRaised>>

\* model.toJSON()
ToJSON ==
    \E o \in {toJSON(model)} :
        /\ result' = Call("toJSON", <<>>, o.raised, o.out)
        /\ UNCHANGED <<given, model, trained, fitRaised>>

\* K.fromJSON(json) on the string the preceding toJSON returned, K being either
\* class; out is <<the instance returned>>.
StaticFromJSON(K) ==
    /\ result.op = "toJSON" /\ ~result.raised
    /\ \E o \in {staticFromJSON(K, result.out)} :
           result' = Call("staticFromJSON", [class |-> K, json |-> result.out], o.raised, o.self)
    /\ UNCHANGED <<given, model, trained, fitRaised>>

\* new K().fromJSON(json) on the string the preceding toJSON returned; out is
\* <<the instance afterwards>>.
InstanceFromJSON(K) ==
    /\ result.op = "toJSON" /\ ~result.raised
    /\ \E o \in {instanceFromJSON(NewTree(K, NoParams), result.out)} :
           result' = Call("instanceFromJSON", [class |-> K, json |-> result.out], o.raised, o.self)
    /\ UNCHANGED <<given, model, trained, fitRaised>>

\* The calls that read the instance.
Queries ==
    \/ \E X \in QueryMatrices : Predict(X)
    \/ \E X \in QueryMatrices : PredictProba(X)
    \/ GetFeatureImportances
    \/ ToJSON

\* The calls that load what toJSON returned.
Loads ==
    \/ \E K \in Kinds : StaticFromJSON(K)
    \/ \E K \in Kinds : InstanceFromJSON(K)

\* The life of an instance: any sequence of fit calls on the refit pool, well
\* formed or not, and of the other calls.
Next ==
    \/ \E X \in RefitMatrices : \E y \in RefitTargets(model.kind) : Fit(X, y)
    \/ Queries
    \/ Loads

Spec == Init /\ [][Next]_vars

\* A fresh instance is fitted once, on any training set within the bounds; the
\* call that follows reads it, and what toJSON returned is loaded. The reads
\* leave the instance as it is, so one read after the fit stands for each read
\* of a longer sequence.
FitFresh ==
    /\ trained = <<>> /\ ~fitRaised
    /\ \E X \in Matrices : \E y \in [1..Len(X) -> TargetsOf(model.kind)] : Fit(X, y)

Unqueried == result.op \in {"new", "fit"}

QueryOnce ==
    \/ Unqueried /\ \E X \in QueryMatrices : Predict(X)
    \/ Unqueried /\ \E X \in QueryMatrices : PredictProba(X)
    \/ Unqueried /\ GetFeatureImportances
    \/ Unqueried /\ ToJSON

NextFitted == FitFresh \/ QueryOnce \/ Loads

SpecFitted == InitFitted /\ [][NextFitted]_vars

\* ---- instances with stopping rules

\* The hyperparameters that stop the builder early.
TunedParamChoices ==
    {[NoParams EXCEPT !.minImpurityDecrease = <<Rat(1, 2)>>],
     [NoParams EXCEPT !.maxDepth = <<Finite(1)>>],
     [NoParams EXCEPT !.minSamplesLeaf = <<2>>],
     [NoParams EXCEPT !.maxDepth = <<Finite(1)>>, !.minSamplesLeaf = <<2>>]}

InitTuned == \E kind \in Kinds, params \in TunedParamChoices : Fresh(kind, params)

\* The matrix and the value _findBestSplit is replaced with in the test of
\* the second check of minSamplesLeaf: a split of feature 0 at 1.5 with gain
\* 1 whose sides are a leading and a trailing run of the rows.
StubMatrix == <<<<JsNum(1)>>, <<JsNum(2)>>, <<JsNum(3)>>>>

StubSplits ==
    {[featureIndex    |-> 0,
      threshold       |-> <<Rat(3, 2)>>,
      splitCategories |-> <<>>,
      impurityGain    |-> ROne,
      leftIndices     |-> SubSeq(Indices(Len(StubMatrix)), 1, k),
      rightIndices    |-> SubSeq(Indices(Len(StubMatrix)), j, Len(StubMatrix))] :
        k \in 0..Len(StubMatrix), j \in 1..(Len(StubMatrix) + 1)}

\* model._findBestSplit = () => stub; model._buildTree(X, y, 0) on a fresh
\* instance; out is <<the node returned>>.
BuildTreeStubbed(y, stub) ==
    /\ result.op = "new" /\ model.maxDepth = Finite(1)
    /\ \E o \in {buildTreeStubbed(model, StubMatrix, y, 0, stub)} :
           result' = Call("_buildTree", [y |-> y, stub |-> stub], FALSE, <<o.node>>)
    /\ UNCHANGED <<given, model, trained, fitRaised>>

NextTuned ==
    \/ result.op = "new" /\ FitFresh
    \/ Unqueried /\ GetFeatureImportances
    \/ \E y \in [1..Len(StubMatrix) -> TargetsOf(model.kind)] :
           \E stub \in StubSplits : BuildTreeStubbed(y, stub)

SpecTuned == InitTuned /\ [][NextTuned]_vars

\* ---- a forest of classifiers

MaxEstimators == 2

MaxForestRows == 2

ForestLabels == {JsStr("a"), JsStr("1"), JsStr("")}

ForestMatrices ==
    UNION {[1..n -> {<<JsNum(1)>>, <<JsNum(2)>>}] : n \in 1..MaxForestRows}

\* The draws of the bootstrap samples: per tree, one row index per row.
Draws(n, nEstimators) == [1..nEstimators -> [1..n -> 1..n]]

InitForest ==
    \E nEstimators \in 1..MaxEstimators, bootstrap \in BOOLEAN :
        /\ given = [nEstimators |-> nEstimators, bootstrap |-> bootstrap]
        /\ model = NewForest(<<nEstimators>>, <<bootstrap>>, NoParams)
        /\ result = Call("new", <<>>, FALSE, <<>>)
        /\ trained = <<>>
        /\ fitRaised = FALSE

\* forest.fit(X, y), the random draws being draws.
ForestFit(X, y, draws) ==
    \E o \in {forestFit(model, X, y, draws)} :
        /\ model' = o.self
        /\ result' = Call("fit", Shape(X, y), o.raised, <<>>)
        /\ trained' = IF o.raised THEN trained ELSE <<[X |-> X, y |-> y]>>
        /\ fitRaised' = (fitRaised \/ o.raised)
        /\ UNCHANGED given

\* forest.predict(X)
ForestPredict(X) ==
    \E o \in {forestPredict(model, X)} :
        /\ result' = Call("predict", X, o.raised, o.out)
        /\ UNCHANGED <<given, model, trained, fitRaised>>

\* forest.predictProba(X)
ForestPredictProba(X) ==
    \E o \in {forestPredictProba(model, X)} :
        /\ result' = Call("predictProba", X, o.raised, o.out)
        /\ UNCHANGED <<given, model, trained, fitRaised>>

\* A forest is fitted once and then queried.
NextForest ==
    \/ /\ result.op = "new"
       /\ \E X \in ForestMatrices : \E y \in [1..Len(X) -> ForestLabels] :
              \E draws \in Draws(Len(X), model.nEstimators) : ForestFit(X, y, draws)
    \/ Unqueried /\ ForestPredict(QueryMatrix(1))
    \/ Unqueried /\ ForestPredictProba(QueryMatrix(1))

SpecForest == InitForest /\ [][NextForest]_vars

\* ---- the helpers called on their own

MaxFeatures == 4

MaxVector == 3

\* The settings of maxFeaturesForSplit: null, the two names, counts and
\* fractions.
MaxFeaturesChoices ==
    {<<>>, <<[t |-> "sqrt", v |-> RZero]>>, <<[t |-> "log2", v |-> RZero]>>}
        \cup {<<[t |-> "num", v |-> RInt(k)]>> : k \in 1..MaxFeatures}
        \cup {<<[t |-> "num", v |-> Rat(1, 4)]>>, <<[t |-> "num", v |-> Rat(1, 2)]>>,
              <<[t |-> "num", v |-> Rat(3, 4)]>>}

\* The label and target vectors handed to the impurity criteria.
Vectors ==
    UNION {[1..n -> {JsNum(1), JsNum(2), JsStr("1"), JsStr("a")}] : n \in 0..MaxVector}

\* Either a tree constructed with a setting of maxFeaturesForSplit and a
\* number of features, or a vector for the criteria.
InitPure ==
    /\ \/ \E m \in MaxFeaturesChoices, n \in 1..MaxFeatures :
              /\ given = [maxFeaturesForSplit |-> m, nTotalFeatures |-> n, y |-> <<>>]
              /\ model = [NewTree("classifier", NoParams) EXCEPT !.maxFeaturesForSplit_ = m]
       \/ \E y \in Vectors :
              /\ given = [maxFeaturesForSplit |-> <<>>, nTotalFeatures |-> 1, y |-> y]
              /\ model = NewTree("classifier", NoParams)
    /\ result = Call("new", <<>>, FALSE, <<>>)
    /\ trained = <<>>
    /\ fitRaised = FALSE

\* model._getFeaturesToConsider(nTotalFeatures), the shuffle drawing picks.
GetFeaturesToConsider(picks) ==
    /\ \A i \in DOMAIN picks : picks[i] <= i
    /\ result' = Call("_getFeaturesToConsider", given.nTotalFeatures, FALSE,
                      featuresToConsider(model, given.nTotalFeatures, picks))
    /\ UNCHANGED <<given, model, trained, fitRaised>>

\* One of the four criteria called on the vector; out is <<the value>>.
CalculateImpurity(criterion) ==
    /\ criterion \in {"mse", "mae"} => \A i \in DOMAIN given.y : given.y[i].t = "num"
    /\ result' = Call(criterion, given.y, FALSE,
                      <<CASE criterion = "gini"    -> calculateGiniImpurity(given.y)
                          [] criterion = "entropy" -> calculateEntropy(given.y)
                          [] criterion = "mse"     -> calculateMSE(given.y)
                          [] criterion = "mae"     -> calculateMAE(given.y)>>)
    /\ UNCHANGED <<given, model, trained, fitRaised>>

NextPure ==
    \/ \E picks \in [1..(given.nTotalFeatures - 1) -> 0..(given.nTotalFeatures - 1)] :
           GetFeaturesToConsider(picks)
    \/ \E criterion \in {"gini", "entropy", "mse", "mae"} : CalculateImpurity(criterion)

SpecPure == InitPure /\ [][NextPure]_vars

\* ---- an instance fitted again and again on two-column training sets

\* Three rows of two numeric columns, the first being [1, 1]: enough for a
\* split on each column.
DeepMatrices ==
    {<<<<JsNum(1), JsNum(1)>>>> \o rest :
        rest \in [1..2 -> {<<JsNum(1), JsNum(1)>>, <<JsNum(2), JsNum(1)>>, <<JsNum(2), JsNum(2)>>}]}

InitRefit == \E kind \in Kinds : Fresh(kind, NoParams)

NextRefit ==
    \/ \E X \in DeepMatrices : \E y \in [1..Len(X) -> RefitTargetsOf(model.kind)] : Fit(X, y)
    \/ Unqueried /\ GetFeatureImportances

SpecRefit == InitRefit /\ [][NextRefit]_vars

\* ---- the recursion of _buildTree, one call at a time

\* The training matrices have at most MaxBuildRows rows.
MaxBuildRows == 4
\* The calls followed are at most MaxBuildDepth levels below the root call.
MaxBuildDepth == 3

\* Hyperparameters: the defaults, leaves of any size, a negative minimal
\* gain with them, leaves of two samples, and a categorical column.
BuildParamChoices ==
    {NoParams,
     [NoParams EXCEPT !.minSamplesLeaf = <<0>>],
     [NoParams EXCEPT !.minSamplesLeaf = <<0>>, !.minImpurityDecrease = <<RInt(-1)>>],
     [NoParams EXCEPT !.minSamplesLeaf = <<2>>],
     [NoParams EXCEPT !.featureTypes = <<<<"categorical">>>>]}

\* One column of numbers and missing values; one short column in which a text
\* that reads as no number stands beside the number 1 (with at most two
\* distinct values the order in which the sort leaves a NaN has no effect);
\* three rows of two columns.
BuildMatrices ==
    UNION {[1..r -> [1..1 -> Cells]] : r \in 1..MaxBuildRows}
        \cup UNION {[1..r -> [1..1 -> {JsNum(1), JsStr("a"), JsNull}]] : r \in 1..(MaxBuildRows - 1)}
        \cup [1..3 -> [1..2 -> {JsNum(1), JsNum(2)}]]

InitBuild == \E kind \in Kinds, params \in BuildParamChoices : Fresh(kind, params)

\* model.fit(X, y) up to and with the root call _buildTree(X, y, 0), the calls
\* for the children still to be made; this.root is what it was before. The
\* result is the call being followed: its arguments, with the number of
\* samples of the root call, and what it did.
BeginFit(X, y) ==
    \E o \in {fitUntilBuild(model, X, y)} :
        /\ model' = o.self
        /\ result' = IF o.raised THEN Call("fit", Shape(X, y), TRUE, <<>>)
                      ELSE Call("_buildTree",
                                [X |-> X, y |-> y, depth |-> 0, rootSamples |-> Len(X)],
                                FALSE, buildTreeCall(o.self, X, y, 0))
        /\ fitRaised' = (fitRaised \/ o.raised)
        /\ UNCHANGED <<given, trained>>

\* The k-th of the two calls the call being followed makes for its children.
\* The sums the calls before it added to featureImportances_ are not kept:
\* no call reads them.
Recurse(k) ==
    /\ result.op = "_buildTree" /\ k <= Len(result.out.calls)
    /\ result.arg.depth < MaxBuildDepth
    /\ \E c \in {result.out.calls[k]} :
           result' = Call("_buildTree",
                          [X |-> c.X, y |-> c.y, depth |-> c.depth,
                           rootSamples |-> result.arg.rootSamples],
                          FALSE, buildTreeCall(model, c.X, c.y, c.depth))
    /\ UNCHANGED <<given, model, trained, fitRaised>>

\* An instance is fitted on one row or not at all, then a fit is followed
\* from its root call down any path of the recursion.
NextBuild ==
    \/ /\ result.op = "new"
       /\ \E y \in [1..1 -> RefitTargetsOf(model.kind)] : Fit(<<<<JsNum(1)>>>>, y)
    \/ /\ result.op \in {"new", "fit"} /\ ~fitRaised
       /\ \E X \in BuildMatrices : \E y \in [1..Len(X) -> RefitTargetsOf(model.kind)] :
              BeginFit(X, y)
    \/ \E k \in 1..2 : Recurse(k)

SpecBuild == InitBuild /\ [][NextBuild]_vars

\* ---- instances that prune what they have grown

\* Hyperparameters: ccpAlpha from none to more than any impurity sum of the
\* training sets, on a numerical and on a categorical column.
PrunedParamChoices ==
    {[NoParams EXCEPT !.ccpAlpha = <<alpha>>] :
        alpha \in {RZero, Rat(1, 4), Rat(1, 2), ROne, RInt(2)}}
        \cup {[NoParams EXCEPT !.ccpAlpha = <<alpha>>, !.featureTypes = <<<<"categorical">>>>] :
                  alpha \in {RZero, Rat(1, 4)}}

InitPruned == \E kind \in Kinds, params \in PrunedParamChoices : Fresh(kind, params)

\* A fresh instance is fitted on one column of up to MaxBuildRows rows, then
\* asked to predict every sample.
NextPruned ==
    \/ /\ result.op = "new"
       /\ \E X \in UNION {[1..r -> [1..1 -> Cells]] : r \in 1..MaxBuildRows} :
              \E y \in [1..Len(X) -> RefitTargetsOf(model.kind)] : Fit(X, y)
    \/ Unqueried /\ Predict(QueryMatrix(1))

SpecPruned == InitPruned /\ [][NextPruned]_vars

\* ------------------------------------------------------------- properties

\* The training set of the last fit call that returned.
TrainedX == trained[1].X
TrainedY == trained[1].y

\* The sorted unique labels of the last fit call that returned.
TrainedClasses == SortByLocale(Unique(TrainedY))

ReadOps == {"predict", "predictProba", "getFeatureImportances", "toJSON"}

\* Two outcomes agree: both calls throw, or both return the same value.
SameOutcome(a, b) == a.raised = b.raised /\ a.out = b.out

\* C1: the instance the static fromJSON of its class returns for m.toJSON()
\* predicts, and for a classifier gives the probabilities, as m does on every
\* query matrix.
C1_RoundTripPredicts ==
    (result.op = "staticFromJSON" /\ ~result.raised) =>
        \A X \in QueryMatrices :
            /\ SameOutcome(predict(result.out[1], X), predict(model, X))
            /\ model.kind = "classifier" =>
                   SameOutcome(predictProba(result.out[1], X), predictProba(model, X))

\* A classifier whose root splits on a set of categories was saved and loaded,
\* and the loaded instance predicts.
C1_Witness ==
    /\ result.op = "staticFromJSON" /\ ~result.raised
    /\ model.kind = "classifier"
    /\ model.root[1].splitCategories # <<>>
    /\ result.out[1].root[1].splitCategories[1].isSet
    /\ ~predict(result.out[1], QueryMatrix(1)).raised

\* C2: a fit call that throws on an instance already fitted leaves the root,
\* the unique-label list, nFeatures, featureTypes and the importances as they
\* were.
C2_FitAllOrNothing ==
    [][(trained # <<>> /\ result'.op = "fit" /\ result'.raised) =>
           /\ model'.root = model.root
           /\ model'.uniqueClasses_ = model.uniqueClasses_
           /\ model'.nFeatures = model.nFeatures
           /\ model'.featureTypes_ = model.featureTypes_
           /\ model'.featureImportances_ = model.featureImportances_]_vars

BreaksPrecondition(shape) ==
    \/ shape.rows # shape.targets
    \/ shape.rows = 0
    \/ (given.featureTypes # <<>> /\ Len(given.featureTypes[1]) # shape.columns)

\* C4: a fit call throws, the root staying as it was, when its arguments break
\* a precondition; with featureTypes given and no precondition broken it
\* returns.
C4_FitPreconditions ==
    [][result'.op = "fit" =>
           /\ BreaksPrecondition(result'.arg) =>
                  (result'.raised /\ model'.root = model.root)
           /\ (given.featureTypes # <<>> /\ ~BreaksPrecondition(result'.arg)) =>
                  ~result'.raised]_vars

\* A fit call with as many targets as rows threw because the featureTypes
\* given have another length than the rows of X.
C4_Witness ==
    /\ result.op = "fit" /\ result.raised
    /\ result.arg.rows = result.arg.targets /\ result.arg.rows > 0
    /\ given.featureTypes # <<>>
    /\ Len(given.featureTypes[1]) # result.arg.columns

\* C5: loading JSON whose type tag names the other class throws, through the
\* static fromJSON and through the instance fromJSON.
C5_LoadValidatesType ==
    (result.op \in {"staticFromJSON", "instanceFromJSON"}
        /\ result.arg.class # result.arg.json.type) => result.raised

\* C6: predictProba returns, for each sample, one column per distinct label
\* of the last fit that returned, column j holding what the reached leaf
\* gives the j-th of these labels in sorted order, 0 when the leaf lacks it.
C6_ProbaColumns ==
    (result.op = "predictProba" /\ trained # <<>> /\ ~result.raised) =>
        /\ Len(result.out) = Len(result.arg)
        /\ \A i \in DOMAIN result.out :
               /\ Len(result.out[i]) = Cardinality(Range(TrainedY))
               /\ \A j \in DOMAIN result.out[i] :
                      result.out[i][j] =
                          ProbOf(predictSample(result.arg[i], model.root).val[1],
                                 TrainedClasses[j])

\* The leaves of a tree.
RECURSIVE Leaves(_)
Leaves(node) ==
    IF node.isLeaf THEN {node}
    ELSE Leaves(node.leftChild[1]) \cup Leaves(node.rightChild[1])

\* C7: the probabilities of every leaf sum to 1, and every row predictProba
\* returns sums to 1 with its entries between 0 and 1.
C7_ProbaRowsSumToOne ==
    (result.op = "predictProba" /\ trained # <<>> /\ ~result.raised) =>
        /\ \A leaf \in Leaves(model.root[1]) :
               RSum([k \in DOMAIN leaf.value[1] |-> leaf.value[1][k].v]) = ROne
        /\ \A i \in DOMAIN result.out :
               /\ RSum(result.out[i]) = ROne
               /\ \A j \in DOMAIN result.out[i] :
                      RLe(RZero, result.out[i][j]) /\ RLe(result.out[i][j], ROne)

\* C8: predict of the classifier returns, for each sample, a training label,
\* typed as in the training set, whose probability in the reached leaf is
\* maximal and that is the first such label of the leaf; for an empty leaf it
\* returns the first of the sorted unique labels.
C8_PredictArgMax ==
    (result.op = "predict" /\ model.kind = "classifier" /\ trained # <<>> /\ ~result.raised) =>
        \A i \in DOMAIN result.out :
            LET probMap == predictSample(result.arg[i], model.root).val[1]
                got     == result.out[i]
            IN  /\ got # <<>>
                /\ Contains(TrainedY, got[1])
                /\ probMap = <<>> => got[1] = TrainedClasses[1]
                /\ probMap # <<>> =>
                       \E k \in DOMAIN probMap :
                           /\ probMap[k].k = String(got[1])
                           /\ \A m \in DOMAIN probMap : RLe(probMap[m].v, probMap[k].v)
                           /\ \A m \in 1..(k - 1) : RLt(probMap[m].v, probMap[k].v)

\* The turns of path from node on send the sample, wherever its value of the
\* split feature is missing, to the child with more samples, left on a tie.
RECURSIVE MissingRoutedByCount(_, _, _)
MissingRoutedByCount(node, sample, path) ==
    IF path = <<>> THEN TRUE
    ELSE LET left  == node.leftChild[1]
             right == node.rightChild[1]
         IN  /\ sample[node.featureIndex[1] + 1] = JsNull =>
                    path[1] = IF right.samples > left.samples THEN "R" ELSE "L"
             /\ MissingRoutedByCount(IF path[1] = "L" THEN left ELSE right, sample, Tail(path))

\* C9: at every node of its way through the tree where the sample lacks the
\* split feature, a predicted sample goes to the child with strictly more
\* training samples, and left when the counts are equal.
C9_MissingRouting ==
    (result.op = "predict" /\ trained # <<>> /\ ~result.raised) =>
        \A i \in DOMAIN result.arg :
            MissingRoutedByCount(model.root[1], result.arg[i],
                                 predictSample(result.arg[i], model.root).path)

\* A sample without its only feature went right at the root, to the larger
\* child, and left at the next node, whose children are equal.
C9_Witness ==
    /\ result.op = "predict" /\ trained # <<>> /\ ~result.raised
    /\ \E i \in DOMAIN result.arg :
           /\ result.arg[i] = <<JsNull>>
           /\ predictSample(result.arg[i], model.root).path = <<"R", "L">>

C11_NoSplitZeroImportances ==
    (result.op = "getFeatureImportances" /\ trained # <<>> /\ model.root[1].isLeaf) =>
        /\ ~result.raised
        /\ result.out = Filled(model.nFeatures[1], RZero)
        /\ Len(result.out) = Len(TrainedX[1])

\* The values of ccpAlpha compared, and the tree a fresh instance with the
\* hyperparameters of the model but ccpAlpha = alpha grows on the training set.
PruneAlphas == {RZero, Rat(1, 4), Rat(1, 2), Rat(3, 4), ROne, Rat(3, 2)}

FittedWith(alpha) ==
    fit(NewTree(model.kind, [given EXCEPT !.ccpAlpha = <<alpha>>]), TrainedX, TrainedY).self.root[1]

RECURSIVE LeafCount(_)
LeafCount(node) ==
    IF node.isLeaf THEN 1 ELSE LeafCount(node.leftChild[1]) + LeafCount(node.rightChild[1])

\* C12: on the same training set and with otherwise equal hyperparameters, a
\* larger ccpAlpha never gives a tree with more leaves, the tree of the model
\* included.
C12_PruningMonotone ==
    (result.op = "fit" /\ ~result.raised) =>
        LET count(alpha) == IF alpha = model.ccpAlpha THEN LeafCount(model.root[1])
                            ELSE LeafCount(FittedWith(alpha))
            counts == [alpha \in PruneAlphas \cup {model.ccpAlpha} |-> count(alpha)]
        IN  \A a1, a2 \in DOMAIN counts : RLe(a1, a2) => counts[a2] <= counts[a1]

\* A training set whose tree of three leaves is left whole by one positive
\* ccpAlpha and cut down to the root by a larger one.
C12_Witness ==
    /\ result.op = "fit" /\ ~result.raised /\ given.ccpAlpha = <<>>
    /\ LeafCount(model.root[1]) = 3
    /\ \E a1, a2 \in PruneAlphas :
           /\ RLt(RZero, a1) /\ RLt(a1, a2)
           /\ LeafCount(FittedWith(a1)) = 3 /\ LeafCount(FittedWith(a2)) = 1

\* Below node, which lies at depth, no split node lies at maxDepth or deeper
\* and no leaf deeper than maxDepth.
RECURSIVE WithinDepth(_, _, _)
WithinDepth(node, depth, maxDepth) ==
    IF node.isLeaf THEN maxDepth.k = "inf" \/ depth <= maxDepth.n
    ELSE /\ maxDepth.k = "inf" \/ depth < maxDepth.n
         /\ WithinDepth(node.leftChild[1], depth + 1, maxDepth)
         /\ WithinDepth(node.rightChild[1], depth + 1, maxDepth)

\* C13: in a fitted tree no split node lies at depth maxDepth or deeper (the
\* root at depth 0) and every leaf lies at depth maxDepth at most; with
\* maxDepth 1 the children of a root that is split are leaves.
C13_DepthBound ==
    trained # <<>> =>
        /\ WithinDepth(model.root[1], 0, model.maxDepth)
        /\ (model.maxDepth = Finite(1) /\ ~model.root[1].isLeaf) =>
               model.root[1].leftChild[1].isLeaf /\ model.root[1].rightChild[1].isLeaf

\* A tree of maxDepth 1 with a child that holds two samples of two classes,
\* on a training set that grows three leaves without the limit.
C13_Witness ==
    /\ trained # <<>> /\ model.maxDepth = Finite(1) /\ ~model.root[1].isLeaf
    /\ \E child \in {model.root[1].leftChild[1], model.root[1].rightChild[1]} :
           child.isLeaf /\ child.samples = 2 /\ child.impurity # <<RZero>>
    /\ LeafCount(fit(NewTree(model.kind, NoParams), TrainedX, TrainedY).self.root[1]) = 3

\* Every child of a split node of the tree holds minSamplesLeaf samples or more.
RECURSIVE ChildrenHold(_, _)
ChildrenHold(node, minSamplesLeaf) ==
    node.isLeaf \/
        /\ node.leftChild[1].samples >= minSamplesLeaf
        /\ node.rightChild[1].samples >= minSamplesLeaf
        /\ ChildrenHold(node.leftChild[1], minSamplesLeaf)
        /\ ChildrenHold(node.rightChild[1], minSamplesLeaf)

\* C14: each child of a split node was built from minSamplesLeaf samples or
\* more, in the tree of a fitted model and in the node _buildTree returns when
\* the split comes from a replaced _findBestSplit; a replaced split with a
\* side below minSamplesLeaf gives a leaf.
C14_MinSamplesLeaf ==
    /\ trained # <<>> => ChildrenHold(model.root[1], model.minSamplesLeaf)
    /\ result.op = "_buildTree" =>
           /\ ChildrenHold(result.out[1], model.minSamplesLeaf)
           /\ (\/ Len(result.arg.stub.leftIndices) < model.minSamplesLeaf
               \/ Len(result.arg.stub.rightIndices) < model.minSamplesLeaf) =>
                  result.out[1].isLeaf

\* The replaced split of the test (one row left, two rows right) on labels of
\* two classes with minSamplesLeaf 2: the node returned is a leaf.
C14_Witness ==
    /\ result.op = "_buildTree" /\ model.minSamplesLeaf = 2
    /\ result.arg.stub.leftIndices = <<1>> /\ result.arg.stub.rightIndices = <<2, 3>>
    /\ result.out[1].isLeaf /\ result.out[1].impurity # <<RZero>>

\* The mean over the trees of the forest of the probability the leaf a sample
\* reaches in each tree gives to the label cls.
MeanOverTrees(sample, cls) ==
    RDiv(RSum([t \in DOMAIN model.trees |->
                  ProbOf(predictSample(sample, model.trees[t].root).val[1], cls)]),
         RInt(Len(model.trees)))

\* C15: for each sample the forest's predictProba gives every class label of
\* the training set the mean over the trees of the probability of that label
\* in the leaf reached, read under the label or under the label's column in
\* the sorted unique labels, and the values of a sample sum to 1.
C15_ForestProbaIsMean ==
    (model.kind = "forest" /\ result.op = "predictProba" /\ ~result.raised) =>
        \A i \in DOMAIN result.arg :
            /\ \/ \A j \in DOMAIN TrainedClasses :
                      ProbOf(result.out[i], TrainedClasses[j])
                          = MeanOverTrees(result.arg[i], TrainedClasses[j])
               \/ \A j \in DOMAIN TrainedClasses :
                      ProbOf(result.out[i], JsNum(j - 1))
                          = MeanOverTrees(result.arg[i], TrainedClasses[j])
            /\ RSum([k \in DOMAIN result.out[i] |-> result.out[i][k].v]) = ROne

\* C16: for each sample the forest's predict returns the label with the most
\* votes among the trees' predictions, the first such label in the order the
\* votes are enumerated, as a number when its text is a numeral and as the
\* text otherwise.
C16_ForestMajorityVote ==
    (model.kind = "forest" /\ result.op = "predict" /\ ~result.raised) =>
        \A i \in DOMAIN result.arg :
            LET voteOf(t) == String(predict(model.trees[t], result.arg).out[i][1])
                count(label) == Cardinality({t \in DOMAIN model.trees : voteOf(t) = label})
                order == ObjKeys(CountLabels([t \in DOMAIN model.trees |->
                                                 JsStr(voteOf(t))]))
                first == CHOOSE k \in DOMAIN order :
                             /\ \A t \in DOMAIN model.trees : count(voteOf(t)) <= count(order[k])
                             /\ \A h \in 1..(k - 1) : count(order[h]) < count(order[k])
            IN  result.out[i] = IF IsDigitText(order[first])
                                THEN JsNum(parseFloat(order[first])[1])
                                ELSE JsStr(order[first])

\* C17: with maxFeaturesForSplit set, _getFeaturesToConsider returns distinct
\* feature indices of 0..n-1: exactly k of them for an integer count k of
\* 1..n, and round(sqrt(n)), round(log2(n)), round(f * n), each clamped to
\* 1..n, for "sqrt", "log2" and a fraction f of (0, 1).
C17_FeatureCount ==
    (result.op = "_getFeaturesToConsider" /\ given.maxFeaturesForSplit # <<>>) =>
        LET n == given.nTotalFeatures
            m == given.maxFeaturesForSplit[1]
            count == Len(result.out)
            clamp(c) == IF c < 1 THEN 1 ELSE IF c > n THEN n ELSE c
        IN  /\ \A i \in DOMAIN result.out : result.out[i] \in 0..(n - 1)
            /\ \A i, j \in DOMAIN result.out : i # j => result.out[i] # result.out[j]
            /\ (m.t = "num" /\ m.v[2] = 1 /\ m.v[1] >= 1 /\ m.v[1] <= n) => count = m.v[1]
            /\ m.t = "sqrt" =>
                   \E r \in 0..n : /\ count = clamp(r)
                                   /\ (2 * r - 1) * (2 * r - 1) <= 4 * n
                                   /\ 4 * n < (2 * r + 1) * (2 * r + 1)
            /\ m.t = "log2" =>
                   \E r \in 0..n : /\ count = clamp(r)
                                   /\ Power(2, 2 * r) <= 2 * n * n
                                   /\ 2 * n * n < Power(2, 2 * r + 2)
            /\ (m.t = "num" /\ RLt(RZero, m.v) /\ RLt(m.v, ROne)) =>
                   \E r \in 0..n : /\ count = clamp(r)
                                   /\ RLt(RSub(RMul(RInt(n), m.v), Rat(1, 2)), RInt(r))
                                   /\ RLe(RInt(r), RAdd(RMul(RInt(n), m.v), Rat(1, 2)))

\* The value a criterion returned is zero; for the entropy, every
\* probability of the sum is 1.
IsZeroImpurity(criterion, value) ==
    IF criterion = "entropy" THEN \A i \in DOMAIN value : value[i] = ROne
    ELSE value = RZero

\* The value a criterion returned is above zero; for the entropy, some
\* probability of the sum lies strictly between 0 and 1.
IsPositiveImpurity(criterion, value) ==
    IF criterion = "entropy"
    THEN /\ \A i \in DOMAIN value : RLt(RZero, value[i]) /\ RLe(value[i], ROne)
         /\ \E i \in DOMAIN value : RLt(value[i], ROne)
    ELSE RLt(RZero, value)

\* C20: each criterion returns zero when all the labels or values of the
\* vector are equal (an empty vector included) and a value above zero when
\* two of them differ.
C20_ZeroIffPure ==
    result.op \in {"gini", "entropy", "mse", "mae"} =>
        IF \A i, j \in DOMAIN result.arg : result.arg[i] = result.arg[j]
        THEN IsZeroImpurity(result.op, result.out[1])
        ELSE IsPositiveImpurity(result.op, result.out[1])

\* C18: on an instance constructed without featureTypes, a fit call with
\* rows, and as many targets as rows, returns whatever the column counts of
\* the earlier fit calls.
C18_ColumnCountPerFit ==
    [][(/\ given.featureTypes = <<>>
        /\ result'.op = "fit"
        /\ result'.arg.rows > 0
        /\ result'.arg.rows = result'.arg.targets) => ~result'.raised]_vars

\* C19: after a fit call that returned, whatever calls came before, the tree,
\* the predictions on every query matrix and the feature importances are
\* those of a fresh instance with the same hyperparameters fitted on the same
\* training set.
C19_FitDiscardsState ==
    (result.op = "fit" /\ ~result.raised) =>
        LET fresh == fit(NewTree(model.kind, given), TrainedX, TrainedY).self
        IN  /\ model.root = fresh.root
            /\ \A X \in QueryMatrices : SameOutcome(predict(model, X), predict(fresh, X))
            /\ SameOutcome(getFeatureImportances(model), getFeatureImportances(fresh))

\* C21: fit terminates whatever the hyperparameters (unbounded maxDepth and
\* minSamplesLeaf = 0 included), because each call of _buildTree made for a
\* child receives a non-empty partition of its parent's samples, and so
\* strictly fewer samples than its parent.
C21_ChildrenShrink ==
    result.op = "_buildTree" =>
        \A k \in DOMAIN result.out.calls :
            /\ Len(result.out.calls[k].X) > 0
            /\ Len(result.out.calls[k].X) < Len(result.arg.X)

\* C22: during fit, on the first fit of an instance and on later ones, the
\* amount added to the importance of the chosen feature for a split of
\* positive gain found at a node of n samples is gain * (n / N), N being the
\* number of samples of the root of the tree being built.
C22_ImportanceShareOfRoot ==
    (/\ result.op = "_buildTree"
     /\ result.out.split # <<>>
     /\ RLt(RZero, result.out.split[1].impurityGain)) =>
        result.out.added[result.out.split[1].featureIndex + 1]
            = RMul(result.out.split[1].impurityGain,
                   Rat(Len(result.arg.X), result.arg.rootSamples))

\* The admissible candidates of a call of _findBestSplit on X and y in
\* iteration order, from feature f on: the features ascending (every feature
\* is considered, in this order), and per feature the thresholds ascending or
\* the category prefixes in ranking order. A feature with fewer non-missing
\* samples than minSamplesSplit has none; a candidate is admissible when both
\* sides hold minSamplesLeaf non-missing samples (and one sample at least, for
\* categories).
RECURSIVE CandidatesFrom(_, _, _, _)
CandidatesFrom(self, X, y, f) ==
    IF f >= self.nFeatures[1] THEN <<>>
    ELSE LET nm    == SelectSeq(Indices(Len(X)), LAMBDA i : Cell(X, i, f) # JsNull)
             cands == IF Len(nm) < self.minSamplesSplit \/ Len(nm) = 0 THEN <<>>
                      ELSE IF self.featureTypes_[1][f + 1] = "numerical"
                      THEN NumericCandidates(self, X, y, nm, f)
                      ELSE CategoricalCandidates(self, X, y, nm, f)
             kept  == SelectSeq(cands, LAMBDA c : c # <<>>)
         IN  [k \in DOMAIN kept |->
                 [featureIndex    |-> f,
                  threshold       |-> kept[k][1].threshold,
                  splitCategories |-> kept[k][1].splitCategories,
                  impurityGain    |-> kept[k][1].impurityGain]]
             \o CandidatesFrom(self, X, y, f + 1)

\* The candidate a split returned by _findBestSplit was made from.
CandidateOf(split) ==
    [featureIndex    |-> split.featureIndex,
     threshold       |-> split.threshold,
     splitCategories |-> split.splitCategories,
     impurityGain    |-> split.impurityGain]

\* The call being followed has searched a split.
Searched == result.op = "_buildTree" /\ result.out.searched

\* C23: _findBestSplit returns null exactly when no candidate is admissible;
\* otherwise it returns the first candidate, in iteration order, whose gain
\* no admissible candidate of any feature exceeds.
C23_FirstBestCandidate ==
    Searched =>
        LET all == CandidatesFrom(model, result.arg.X, result.arg.y, 0)
        IN  /\ (result.out.split = <<>>) <=> (all = <<>>)
            /\ result.out.split # <<>> =>
                   \E j \in DOMAIN all :
                       /\ all[j] = CandidateOf(result.out.split[1])
                       /\ \A k \in DOMAIN all : RLe(all[k].impurityGain, all[j].impurityGain)
                       /\ \A k \in 1..(j - 1) : RLt(all[k].impurityGain, all[j].impurityGain)

\* Two candidates of the maximal gain on two features: the one of the
\* feature considered first is returned.
C23_Witness ==
    /\ Searched
    /\ result.out.split # <<>>
    /\ LET all == CandidatesFrom(model, result.arg.X, result.arg.y, 0)
       IN  \E j, k \in DOMAIN all :
               /\ j < k
               /\ all[j] = CandidateOf(result.out.split[1])
               /\ all[k].impurityGain = all[j].impurityGain
               /\ all[k].featureIndex # all[j].featureIndex

\* C24: in the split _findBestSplit returns, leftIndices and rightIndices
\* together hold every sample of the node exactly once, and the samples whose
\* value at the winning feature is missing are all on the left when the two
\* sides hold equally many non-missing samples or one of them holds none,
\* and else all on the side that holds more non-missing samples.
C24_MissingWithLargerSide ==
    (Searched /\ result.out.split # <<>>) =>
        LET split   == result.out.split[1]
            X       == result.arg.X
            isMissing(i) == Cell(X, i, split.featureIndex) = JsNull
            missing == {i \in DOMAIN X : isMissing(i)}
            nmLeft  == Len(SelectSeq(split.leftIndices, LAMBDA i : ~isMissing(i)))
            nmRight == Len(SelectSeq(split.rightIndices, LAMBDA i : ~isMissing(i)))
        IN  /\ Len(split.leftIndices) + Len(split.rightIndices) = Len(X)
            /\ Range(split.leftIndices) \cup Range(split.rightIndices) = DOMAIN X
            /\ missing # {} =>
                   IF nmLeft = nmRight \/ nmLeft = 0 \/ nmRight = 0 \/ nmLeft > nmRight
                   THEN missing \subseteq Range(split.leftIndices)
                   ELSE missing \subseteq Range(split.rightIndices)

\* The call being followed has searched a split on a categorical column 0
\* in which the samples of the node show at least two categories.
SearchedCategories ==
    /\ Searched
    /\ model.featureTypes_[1][1] = "categorical"
    /\ Cardinality({Cell(result.arg.X, i, 0) : i \in DOMAIN result.arg.X} \ {JsNull}) >= 2

\* The non-missing samples of the node, and its categories as first seen.
NodeNonMissing == SelectSeq(Indices(Len(result.arg.X)), LAMBDA i : Cell(result.arg.X, i, 0) # JsNull)

NodeCategories == Unique([j \in DOMAIN NodeNonMissing |-> Cell(result.arg.X, NodeNonMissing[j], 0)])

\* The left-category sets of the candidates evaluated at the node, in order
\* (with minSamplesLeaf = 1 no candidate is filtered out).
NodeCategorySets ==
    LET cands == CategoricalCandidates(model, result.arg.X, result.arg.y, NodeNonMissing, 0)
    IN  [j \in DOMAIN cands |-> cands[j][1].splitCategories[1].items]

\* The surrogate of a category at the node: the share of the first of the
\* sorted unique labels among its samples (classifier), their mean target
\* (regressor).
Surrogate(cat) ==
    LET rows == {i \in DOMAIN result.arg.X : Cell(result.arg.X, i, 0) = cat}
        hits == {i \in rows : result.arg.y[i] = model.uniqueClasses_[1][1]}
    IN  IF model.kind = "classifier" THEN Rat(Cardinality(hits), Cardinality(rows))
        ELSE RDiv(RSum([j \in 1..Len(NodeNonMissing) |->
                           IF NodeNonMissing[j] \in rows
                           THEN RInt(result.arg.y[NodeNonMissing[j]].n) ELSE RZero]),
                  RInt(Cardinality(rows)))

\* C25: at a node with k > 2 categories of a categorical feature the
\* left-category sets evaluated are the k - 1 non-empty proper prefixes of
\* the categories in an order ascending by the surrogate; with k = 2 the one
\* set holds the category seen first; no set is empty or holds every
\* category.
C25_CategoryPrefixes ==
    SearchedCategories =>
        LET k    == Len(NodeCategories)
            sets == NodeCategorySets
        IN  /\ \A j \in DOMAIN sets :
                   /\ Len(sets[j]) > 0 /\ Len(sets[j]) < k
                   /\ Range(sets[j]) \subseteq Range(NodeCategories)
            /\ k = 2 => sets = <<<<NodeCategories[1]>>>>
            /\ k > 2 =>
                   /\ Len(sets) = k - 1
                   /\ \A j \in DOMAIN sets :
                          /\ Len(sets[j]) = j
                          /\ Cardinality(Range(sets[j])) = j
                          /\ sets[j] = SubSeq(sets[k - 1], 1, j)
                   /\ \A j \in 1..(k - 2) :
                          RLe(Surrogate(sets[k - 1][j]), Surrogate(sets[k - 1][j + 1]))
                   /\ \A c \in Range(NodeCategories) \ Range(sets[k - 1]) :
                          RLe(Surrogate(sets[k - 1][k - 1]), Surrogate(c))

\* Three categories whose ranking is not the order in which they were seen.
C25_Witness ==
    /\ SearchedCategories
    /\ Len(NodeCategories) = 3
    /\ Len(result.arg.X) = 4
    /\ NodeCategorySets[2] # SubSeq(NodeCategories, 1, 2)
    /\ RLt(Surrogate(NodeCategorySets[2][1]), Surrogate(NodeCategorySets[2][2]))
    /\ result.out.split # <<>>

\* The sum of impurity * samples over the leaves below node.
RECURSIVE SubtreeRisk(_)
SubtreeRisk(node) ==
    IF node.isLeaf THEN RMul(node.impurity[1], RInt(node.samples))
    ELSE RAdd(SubtreeRisk(node.leftChild[1]), SubtreeRisk(node.rightChild[1]))

\* The cost per leaf removed of collapsing the internal node of a pruned tree.
CostPerLeaf(node) ==
    RDiv(RSub(RMul(node.impurity[1], RInt(node.samples)), SubtreeRisk(node)),
         RInt(LeafCount(node) - 1))

\* pruned is what the pruning with alpha may leave of the subtree grown: a
\* leaf as it was; an internal node kept with its split, its cost per leaf
\* above alpha, and its children in turn; or an internal node collapsed
\* where it stands, its value its potentialLeafValue, its children and split
\* fields cleared.
RECURSIVE PrunedAsClaimed(_, _, _)
PrunedAsClaimed(grown, pruned, alpha) ==
    IF grown.isLeaf THEN pruned = grown
    ELSE IF pruned.isLeaf
    THEN pruned = [grown EXCEPT !.isLeaf = TRUE, !.value = grown.potentialLeafValue,
                                !.leftChild = <<>>, !.rightChild = <<>>,
                                !.featureIndex = <<>>, !.threshold = <<>>,
                                !.splitCategories = <<>>]
    ELSE /\ RLt(alpha, CostPerLeaf(pruned))
         /\ [pruned EXCEPT !.leftChild = <<>>, !.rightChild = <<>>]
                = [grown EXCEPT !.leftChild = <<>>, !.rightChild = <<>>]
         /\ PrunedAsClaimed(grown.leftChild[1], pruned.leftChild[1], alpha)
         /\ PrunedAsClaimed(grown.rightChild[1], pruned.rightChild[1], alpha)

\* The last call was a fit that returned.
Fitted == result.op = "fit" /\ ~result.raised

\* C26: after a fit with ccpAlpha > 0 every node that is still internal has
\* a cost per leaf (R_t - R(T_t)) / (leaves(T_t) - 1) above ccpAlpha, taken
\* over its pruned subtree, and every other internal node of the tree grown
\* that is still there is a leaf whose value is its potentialLeafValue and
\* whose children and split fields are cleared.
C26_PrunedByCostPerLeaf ==
    (Fitted /\ RLt(RZero, model.ccpAlpha)) =>
        PrunedAsClaimed(FittedWith(RZero), model.root[1], model.ccpAlpha)

\* A tree of which the pruning has collapsed a node below the root and has
\* left the root internal.
C26_Witness ==
    /\ Fitted /\ RLt(RZero, model.ccpAlpha)
    /\ ~model.root[1].isLeaf
    /\ LeafCount(model.root[1]) < LeafCount(FittedWith(RZero))

\* ccpAlpha is at least impurity * samples of the root of the last fit.
AlphaCoversRoot ==
    /\ trained # <<>>
    /\ RLe(RMul(calculateImpurity(model, TrainedY), RInt(Len(TrainedX))), model.ccpAlpha)

\* C27: whenever ccpAlpha >= impurity(root) * samples(root), the tree after
\* fit is a single leaf whose payload is the leaf value of the whole training
\* set, and predict returns one and the same value for every sample.
C27_LargeAlphaCollapsesToRoot ==
    /\ (Fitted /\ AlphaCoversRoot) =>
           /\ model.root[1].isLeaf
           /\ model.root[1].leftChild = <<>> /\ model.root[1].rightChild = <<>>
           /\ model.root[1].value = <<calculateLeafValue(model, TrainedY)>>
           /\ model.root[1].samples = Len(TrainedX)
    /\ (result.op = "predict" /\ AlphaCoversRoot) =>
           /\ ~result.raised
           /\ \A i, j \in DOMAIN result.out : result.out[i] = result.out[j]

\* A training set that grows three leaves or more, fitted with a ccpAlpha
\* that covers the root, and predicted.
C27_Witness ==
    /\ result.op = "predict" /\ AlphaCoversRoot
    /\ LeafCount(FittedWith(RZero)) >= 3
    /\ Len(result.out) = Len(QueryMatrix(1))

\* The rows of X (their indices) that the split rule of an internal node
\* sends left: a missing value goes with the larger child, left on a tie.
RowsLeft(node, X) ==
    LET cell(i) == Cell(X, i, node.featureIndex[1])
    IN  SelectSeq(Indices(Len(X)), LAMBDA i :
            IF cell(i) = JsNull THEN node.leftChild[1].samples >= node.rightChild[1].samples
            ELSE IF node.threshold # <<>> THEN RLe(Number(cell(i)), node.threshold[1])
            ELSE cell(i) \in Range(node.splitCategories[1].items))

\* node, reached by the samples X and y, and every node below it are as C28
\* says.
RECURSIVE WellFormed(_, _, _)
WellFormed(node, X, y) ==
    /\ node.potentialLeafValue = <<calculateLeafValue(model, y)>>
    /\ IF node.isLeaf
       THEN /\ node.value # <<>>
            /\ node.leftChild = <<>> /\ node.rightChild = <<>>
            /\ node.featureIndex = <<>> /\ node.threshold = <<>> /\ node.splitCategories = <<>>
       ELSE /\ node.leftChild # <<>> /\ node.rightChild # <<>>
            /\ node.featureIndex # <<>>
            /\ node.featureIndex[1] \in 0..(model.nFeatures[1] - 1)
            /\ (node.threshold # <<>>) # (node.splitCategories # <<>>)
            /\ LET left  == RowsLeft(node, X)
                   right == SelectSeq(Indices(Len(X)), LAMBDA i : ~Contains(left, i))
               IN  /\ WellFormed(node.leftChild[1], Pick(X, left), Pick(y, left))
                   /\ WellFormed(node.rightChild[1], Pick(X, right), Pick(y, right))

\* C28: after a fit that returned, pruned or not, every node is a leaf with
\* a value, no child and no split rule, or an internal node with two
\* children, a featureIndex in 0..nFeatures-1 and either a threshold or
\* splitCategories; and every node carries as potentialLeafValue the leaf
\* value of the training samples that reach it.
C28_NodesWellFormed == Fitted => WellFormed(model.root[1], TrainedX, TrainedY)

\* A pruned tree over a column with a missing value: the root is internal
\* and a node below it was collapsed.
C28_Witness ==
    /\ Fitted /\ RLt(RZero, model.ccpAlpha)
    /\ \E i \in DOMAIN TrainedX : TrainedX[i][1] = JsNull
    /\ ~model.root[1].isLeaf
    /\ \E child \in {model.root[1].leftChild[1], model.root[1].rightChild[1]} :
           child.isLeaf /\ child.impurity # <<RZero>> /\ child.samples >= 2

\* The call being followed has split its samples between two children, in an
\* instance whose fits return (its minimal gain is not negative).
SplitsSamples ==
    /\ result.op = "_buildTree" /\ result.out.calls # <<>>
    /\ given.minImpurityDecrease = <<>>

\* The node the call being followed returns.
NodeReturned ==
    buildTree(model, result.arg.X, result.arg.y, result.arg.depth,
              Filled(model.nFeatures[1], RZero)).node

\* The first step the predictor takes from node for row i of the samples of
\* the call being followed.
FirstStep(node, i) == predictSampleFrom(result.arg.X[i], <<node>>, <<>>).path[1]

\* C29: in a tree fitted without pruning the predictor sends every training
\* row, at every internal node it reaches, to the child the row was assigned
\* to when the node was built, rows whose value at the split feature is
\* missing included.
C29_RoutingAgrees ==
    SplitsSamples =>
        \A node \in {NodeReturned} : \A i \in DOMAIN result.arg.X :
            FirstStep(node, i)
                = IF Contains(result.out.split[1].leftIndices, i) THEN "L" ELSE "R"

\* A node of four samples, one of them missing the split feature and sent
\* right with the larger side.
C29_Witness ==
    /\ SplitsSamples
    /\ Len(result.arg.X) = 4
    /\ \E i \in DOMAIN result.arg.X :
           /\ Cell(result.arg.X, i, result.out.split[1].featureIndex) = JsNull
           /\ Contains(result.out.split[1].rightIndices, i)
           /\ FirstStep(NodeReturned, i) = "R"

\* C30: the instance the static fromJSON returns for m.toJSON() has the
\* criterion, maxDepth, minSamplesSplit, minSamplesLeaf, minImpurityDecrease,
\* featureTypes and ccpAlpha of m, the default unlimited maxDepth included,
\* and fit builds on it the tree it builds on m from the same training set.
C30_RoundTripKeepsHyperparameters ==
    (result.op = "staticFromJSON" /\ ~result.raised) =>
        LET restored == result.out[1]
        IN  /\ restored.criterion = model.criterion
            /\ restored.maxDepth = model.maxDepth
            /\ restored.minSamplesSplit = model.minSamplesSplit
            /\ restored.minSamplesLeaf = model.minSamplesLeaf
            /\ restored.minImpurityDecrease = model.minImpurityDecrease
            /\ restored.featureTypes_ = model.featureTypes_
            /\ restored.ccpAlpha = model.ccpAlpha
            /\ fit(restored, TrainedX, TrainedY).self.root = fit(model, TrainedX, TrainedY).self.root
====
